---- MODULE Spec2Model ----
(***************************************************************************)
(* Order / payment / refund workflows of the e-commerce backend            *)
(* (controllers/orderController.js, controllers/transactionController.js)  *)
(* over the relational store of database/schema.sql.                       *)
(*                                                                         *)
(* Every request is a process that walks through the awaited statements of *)
(* its handler.  The store is MySQL/InnoDB at its default isolation level  *)
(* (REPEATABLE READ): a connection is either in autocommit mode, where     *)
(* every statement is applied to the committed tables at once, or inside   *)
(* a transaction, where its writes are collected in a write set that       *)
(* commit applies and rollback discards.  Row locks (shared for a foreign  *)
(* key check, exclusive for an UPDATE) are held until the transaction      *)
(* ends.  Plain SELECTs of one transaction read one snapshot, so they are  *)
(* modelled at the step of the first SELECT.                               *)
(*                                                                         *)
(* Money: request prices are in tenths of a cent, DECIMAL(10,2) columns    *)
(* hold cents, and ToDecimal2 is the rounding the store applies.           *)
(***************************************************************************)
EXTENDS Integers, Sequences, FiniteSets, TLC

\* ------------------------------------------------------------------ bounds
MaxCalls == 2            \* requests started in one behaviour

Slots == {1, 2}          \* requests in flight at the same time
Conns == {1, 2}          \* connections of the pool
Users == {1, 2}
ProductIds == {1, 2}     \* rows of products
StatusInputs == {"shipped", "cancelled"}
\* req.body.status of updateOrderStatus over the whole vocabulary and one
\* value outside it
StatusTargets == {"pending", "processing", "shipped", "delivered", "cancelled", "archived"}
AmountInputs == {5}      \* an amount the caller of processPayment puts in the body
StockInputs == {0, 5}    \* req.body.stock of updateProduct; 0: not in the body

\* ------------------------------------------------------------------ schema
OrderStatusEnum == {"pending", "processing", "shipped", "delivered", "cancelled"}
HistoryStatusEnum == {"pending", "processing", "shipped", "delivered", "cancelled"}
TxnStatusEnum == {"pending", "completed", "failed", "refunded"}

\* DECIMAL(10,2): a value given in tenths of a cent is stored in cents,
\* rounded half away from zero.
ToDecimal2(m) == IF m >= 0 THEN (m + 5) \div 10 ELSE 0 - ((5 - m) \div 10)

\* Mutant of StoreEnum: every value is stored as the empty string.
StoreEnum_blank(v, enum) == ""

\* What a non-strict server stores for a value outside an ENUM: the empty
\* string.  (A strict server rejects the statement, see EnumOk.)
StoreEnum(v, enum) == IF v \in enum THEN v ELSE ""

VARIABLES
    db,            \* the committed tables
    nextOrderId,   \* AUTO_INCREMENT of orders
    nextTxnId,     \* AUTO_INCREMENT of transactions
    sql_strict,    \* the server's sql_mode has STRICT_TRANS_TABLES
    conn,          \* the pool's connections
    req,           \* the requests in flight
    prev,          \* the request that ran before (sequential runs)
    calls          \* requests started so far

vars == <<db, nextOrderId, nextTxnId, sql_strict, conn, req, prev, calls>>

\* ------------------------------------------------------------------ helpers
RECURSIVE SumSeq(_)
SumSeq(s) == IF s = <<>> THEN 0 ELSE Head(s) + SumSeq(Tail(s))

Last(s) == s[Len(s)]

\* req.body.items of the createOrder requests tried.  A line is (product id,
\* quantity, unit price in tenths of a cent); product 3 has no row.  The
\* lists: no line, one line, two products, one product on two lines (more
\* units than are in stock, one line at a price with a fraction of a cent),
\* and a missing product after and before an existing one.
Line(id, quantity, price) == [id |-> id, quantity |-> quantity, price |-> price]

ItemLists ==
    {<<>>,
     <<Line(1, 1, 10)>>,
     <<Line(2, 2, 15)>>,
     <<Line(1, 1, 10), Line(2, 1, 10)>>,
     <<Line(1, 1, 10), Line(1, 2, 15)>>,
     <<Line(1, 1, 10), Line(3, 1, 10)>>,
     <<Line(3, 1, 10), Line(1, 1, 10)>>}

\* req.body.items with quantities the handler does not look at: a negative
\* quantity, alone and next to a positive one, and a quantity of 0.
SignedItemLists ==
    {<<Line(1, 1, 10)>>,
     <<Line(1, -1, 10)>>,
     <<Line(1, 2, 10), Line(2, -1, 10)>>,
     <<Line(2, 0, 10)>>}

NoRows == <<>>

\* A write set: what one transaction (or one autocommit statement) changes.
\* stock holds relative changes (stock = stock + ?), stock_set the values
\* written by UPDATE products SET stock = ? (given: the value came from the
\* request body, not from an earlier read).
EmptyW ==
    [stock |-> [p \in ProductIds |-> 0],
     stock_set |-> NoRows,
     orders |-> NoRows,
     order_items |-> <<>>,
     transactions |-> NoRows,
     order_status_history |-> <<>>,
     orders_status |-> NoRows,
     transactions_status |-> NoRows,
     order_number |-> NoRows,
     transaction_id |-> NoRows,
     products_deleted |-> {},
     cart_cleared |-> {},
     cart_ops |-> <<>>,
     token_ops |-> <<>>]

Merge(w, d) ==
    [stock |-> [p \in ProductIds |->
                  (IF p \in DOMAIN d.stock_set THEN 0 ELSE w.stock[p]) + d.stock[p]],
     stock_set |-> d.stock_set @@ w.stock_set,
     orders |-> d.orders @@ w.orders,
     order_items |-> w.order_items \o d.order_items,
     transactions |-> d.transactions @@ w.transactions,
     order_status_history |-> w.order_status_history \o d.order_status_history,
     orders_status |-> d.orders_status @@ w.orders_status,
     transactions_status |-> d.transactions_status @@ w.transactions_status,
     order_number |-> d.order_number @@ w.order_number,
     transaction_id |-> d.transaction_id @@ w.transaction_id,
     products_deleted |-> w.products_deleted \cup d.products_deleted,
     cart_cleared |-> w.cart_cleared \cup d.cart_cleared,
     cart_ops |-> w.cart_ops \o d.cart_ops,
     token_ops |-> w.token_ops \o d.token_ops]

\* Mutant of AppendHistory: the committed rows replace the table.
AppendHistory_replaces(old, new) == new

\* order_status_history only ever receives INSERTs: the rows a transaction
\* wrote are added after the rows the table has.
AppendHistory(old, new) == old \o new

\* FOREIGN KEY (product_id) REFERENCES products(id) ON DELETE CASCADE, on
\* order_items and on cart_items: the rows that remain when the products in
\* deleted are removed.
CascadeItems(rows, deleted) ==
    SelectSeq(rows, LAMBDA r : r.product_id \notin deleted)

\* Mutant of SetStatus: the UPDATE also clears the amount.
SetStatus_clearsAmount(row, status) ==
    [[row EXCEPT !.status = status] EXCEPT !.amount = 0]

\* UPDATE ... SET status = ?, updated_at = CURRENT_TIMESTAMP WHERE id = ?:
\* of the columns kept here only status changes.
SetStatus(row, status) == [row EXCEPT !.status = status]

\* One statement on carts or cart_items, as a write set keeps it: "cart" is
\* INSERT INTO carts (user_id), "insert" INSERT INTO cart_items, "set"
\* UPDATE cart_items SET quantity = ? WHERE id = ? and "delete" DELETE FROM
\* cart_items WHERE id = ?.  A cart is named by its user, a cart item by the
\* cart's user and the product; quantity is the value the INT column holds.
CartOp(kind, user, product, quantity) ==
    [kind |-> kind, user |-> user, product |-> product, quantity |-> quantity]

\* carts and cart_items after one such statement.  carts[u] is the number
\* of carts rows of user u, cart_items[u][p] the quantities of the
\* cart_items rows of (cart of u, product p), oldest first.
ApplyCartOp(c, op) ==
    LET rows == c.cart_items[op.user][op.product]
    IN  CASE op.kind = "cart" ->
               [c EXCEPT !.carts[op.user] = @ + 1]
          [] op.kind = "insert" ->
               [c EXCEPT !.cart_items[op.user][op.product] =
                             Append(rows, op.quantity)]
          [] op.kind = "set" ->
               [c EXCEPT !.cart_items[op.user][op.product] =
                             IF rows = <<>> THEN rows
                             ELSE <<op.quantity>> \o Tail(rows)]
          [] OTHER ->
               [c EXCEPT !.cart_items[op.user][op.product] =
                             IF rows = <<>> THEN rows ELSE Tail(rows)]

RECURSIVE ApplyCartOps(_, _)
ApplyCartOps(c, ops) ==
    IF ops = <<>> THEN c
    ELSE ApplyCartOps(ApplyCartOp(c, Head(ops)), Tail(ops))

\* carts and cart_items of the committed tables d after write set w: the
\* carts emptied and the products deleted lose their rows, then the
\* statements on single rows apply in the order they ran.
CartTables(d, w) ==
    ApplyCartOps(
        [carts |-> d.carts,
         cart_items |-> [u \in Users |-> [p \in ProductIds |->
                       IF u \in w.cart_cleared \/ p \in w.products_deleted
                       THEN <<>>
                       ELSE d.cart_items[u][p]]]],
        w.cart_ops)

\* One statement on refresh_tokens: "insert" is INSERT INTO refresh_tokens
\* (user_id, token, expires_at), "rotate" UPDATE refresh_tokens SET token =
\* ?, expires_at = ... WHERE id = ? and "delete" DELETE FROM refresh_tokens
\* WHERE token = ?.
TokenOp(kind, id, user, token) ==
    [kind |-> kind, id |-> id, user |-> user, token |-> token]

\* refresh_tokens after one such statement.  rows are the table's rows and
\* next_id its AUTO_INCREMENT value.  The rest is not a table: last_token[u]
\* is the refresh token signed for user u in the current second (0: none),
\* next_token stands for the tokens not signed yet, revoked holds the
\* tokens a DELETE was run for.
ApplyTokenOp(a, op) ==
    LET signed == [a EXCEPT !.last_token[op.user] = op.token,
                            !.next_token = IF op.token >= @ THEN op.token + 1 ELSE @]
    IN  CASE op.kind = "insert" ->
               [signed EXCEPT !.rows = Append(@, [id |-> a.next_id,
                                                  user_id |-> op.user,
                                                  token |-> op.token,
                                                  expired |-> FALSE]),
                              !.next_id = @ + 1]
          [] op.kind = "rotate" ->
               [signed EXCEPT !.rows = [i \in DOMAIN @ |->
                                  IF @[i].id = op.id
                                  THEN [@[i] EXCEPT !.token = op.token,
                                                    !.expired = FALSE]
                                  ELSE @[i]]]
          [] OTHER ->
               [a EXCEPT !.rows = SelectSeq(@, LAMBDA r : r.token # op.token),
                         !.revoked = @ \cup {op.token}]

RECURSIVE ApplyTokenOps(_, _)
ApplyTokenOps(a, ops) ==
    IF ops = <<>> THEN a
    ELSE ApplyTokenOps(ApplyTokenOp(a, Head(ops)), Tail(ops))

\* The committed tables after write set w is applied.  ledger is not a
\* table: it adds up, per product, the stock changes the committed
\* operations asked for (a write-back of a value read earlier asks for none).
Apply(d, w) ==
    LET os == w.orders @@ d.orders
        ts == w.transactions @@ d.transactions
    IN  [products |-> d.products \ w.products_deleted,
         stock |-> [p \in ProductIds |->
                      IF p \in d.products \ w.products_deleted
                      THEN (IF p \in DOMAIN w.stock_set THEN w.stock_set[p].value
                                                        ELSE d.stock[p]) + w.stock[p]
                      ELSE 0],
         ledger |-> [p \in ProductIds |->
                      d.ledger[p] + w.stock[p]
                        + (IF p \in DOMAIN w.stock_set /\ w.stock_set[p].given
                           THEN w.stock_set[p].value - d.stock[p] ELSE 0)],
         orders |-> [o \in DOMAIN os |->
                       IF o \in DOMAIN w.orders_status
                       THEN SetStatus(os[o], w.orders_status[o])
                       ELSE os[o]],
         order_items |-> CascadeItems(d.order_items \o w.order_items,
                                      w.products_deleted),
         transactions |-> [t \in DOMAIN ts |->
                       IF t \in DOMAIN w.transactions_status
                       THEN SetStatus(ts[t], w.transactions_status[t])
                       ELSE ts[t]],
         order_status_history |->
             AppendHistory(d.order_status_history, w.order_status_history),
         order_number |-> w.order_number @@ d.order_number,
         transaction_id |-> w.transaction_id @@ d.transaction_id,
         carts |-> CartTables(d, w).carts,
         cart_items |-> CartTables(d, w).cart_items,
         refresh_tokens |-> ApplyTokenOps(d.refresh_tokens, w.token_ops)]

ItemsOf(d, o) == SelectSeq(d.order_items, LAMBDA r : r.order_id = o)
HistoryOf(d, o) == SelectSeq(d.order_status_history, LAMBDA r : r.order_id = o)
TxnsOf(d, o) == {t \in DOMAIN d.transactions : d.transactions[t].order_id = o}

\* The tables when the run starts: two products in stock, user 1 with a
\* cart holding one unit of product 1, order 1 of user 1 that was placed
\* without a payment (the schema allows an order with no transaction row;
\* processPayment exists for such orders), and order 2 of user 2 as an
\* earlier createOrder left it.  order_number and transaction_id hold the
\* UNIQUE columns orders.order_number and transactions.transaction_id, by
\* row id; the generated strings are numbered.  User 1 has just logged in:
\* refresh_tokens holds the refresh token of that login (token 1).
InitDb ==
    [products |-> ProductIds,
     stock |-> [p \in ProductIds |-> 2],
     ledger |-> [p \in ProductIds |-> 0],
     orders |-> (1 :> [user_id |-> 1, total_amount |-> 1, status |-> "pending"])
            @@ (2 :> [user_id |-> 2, total_amount |-> 1, status |-> "pending"]),
     order_items |-> <<[order_id |-> 1, product_id |-> 1, quantity |-> 1, price |-> 1],
                       [order_id |-> 2, product_id |-> 2, quantity |-> 1, price |-> 1]>>,
     transactions |-> (1 :> [order_id |-> 2, amount |-> 1, status |-> "completed"]),
     order_status_history |-> <<[order_id |-> 1, status |-> "pending"],
                                [order_id |-> 2, status |-> "pending"]>>,
     order_number |-> (1 :> 1) @@ (2 :> 2),
     transaction_id |-> (1 :> 1),
     carts |-> [u \in Users |-> IF u = 1 THEN 1 ELSE 0],
     cart_items |-> [u \in Users |-> [p \in ProductIds |->
                        IF u = 1 /\ p = 1 THEN <<1>> ELSE <<>>]],
     refresh_tokens |->
         [rows |-> <<[id |-> 1, user_id |-> 1, token |-> 1, expired |-> FALSE]>>,
          next_id |-> 2,
          last_token |-> [u \in Users |-> IF u = 1 THEN 1 ELSE 0],
          next_token |-> 2,
          revoked |-> {}]]

\* ------------------------------------------------------------------ locks
OrderRow(o) == <<"orders", o>>
ProductRow(p) == <<"products", p>>
TxnRow(t) == <<"transactions", t>>

CanLockS(c, r) == \A e \in Conns \ {c} : r \notin conn[e].X
CanLockX(c, r) == \A e \in Conns \ {c} : r \notin conn[e].X /\ r \notin conn[e].S

\* ------------------------------------------------------------------ connections
FreshConn ==
    [busy |-> FALSE, open |-> FALSE, snap |-> FALSE, seen |-> {},
     view |-> InitDb, w |-> EmptyW, S |-> {}, X |-> {}]

\* connection.beginTransaction(): START TRANSACTION commits a transaction
\* that is still open on the connection, then opens a new one.
BeginConn(k) ==
    [k EXCEPT !.open = TRUE, !.snap = FALSE, !.seen = {}, !.view = InitDb,
              !.w = EmptyW, !.S = {}, !.X = {}]

\* The connection after its transaction has ended (commit or rollback).
EndConn(k) ==
    [k EXCEPT !.open = FALSE, !.snap = FALSE, !.seen = {}, !.view = InitDb,
              !.w = EmptyW, !.S = {}, !.X = {}]

\* Mutant of ReleaseConn: the connection is not given back.
ReleaseConn_keeps(k) == k

\* connection.release(): back to the pool as it is.
ReleaseConn(k) == [k EXCEPT !.busy = FALSE]

\* Mutant of CommitDb: the commit writes nothing.
CommitDb_lost(k) == db

\* connection.commit(): the write set reaches the committed tables.
CommitDb(k) == IF k.open THEN Apply(db, k.w) ELSE db

\* Mutant of RollbackDb: the catch block ends the transaction by committing.
RollbackDb_commits(k) == CommitDb(k)

\* connection.rollback(): the write set is dropped; in autocommit mode there
\* is nothing to roll back.
RollbackDb(k) == db

Idle ==
    [op |-> "idle", pc |-> "done", c |-> 1, user |-> 0, items |-> <<>>,
     orderId |-> 0, txnId |-> 0, status |-> "", i |-> 0, rows |-> <<>>,
     total |-> 0, resp |-> 0, fault |-> FALSE, at |-> "", audit |-> FALSE,
     history |-> <<>>, txns |-> {}, productId |-> 0, body_stock |-> 0,
     read_stock |-> 0, body_amount |-> 0, key |-> 0, role_id |-> 0,
     quantity |-> [given |-> FALSE, tenths |-> 0], item |-> <<0, 0>>,
     via |-> "", queued |-> FALSE, token |-> 0, issued |-> 0,
     pre |-> InitDb]

\* What is kept of the request that ran before.
Summary(r) ==
    [op |-> r.op, orderId |-> r.orderId, txnId |-> r.txnId, status |-> r.status,
     resp |-> r.resp, stock |-> r.pre.stock]

Init ==
    /\ db = InitDb
    /\ nextOrderId = 3
    /\ nextTxnId = 2
    /\ sql_strict \in BOOLEAN
    /\ conn = [c \in Conns |-> FreshConn]
    /\ req = [s \in Slots |-> Idle]
    /\ prev = Summary(Idle)
    /\ calls = 0

\* ------------------------------------------------------------------ statements
\* A plain SELECT inside a transaction fixes the transaction's snapshot.
Snap(k) ==
    IF k.open /\ ~k.snap
    THEN [k EXCEPT !.snap = TRUE, !.seen = DOMAIN db.orders, !.view = db]
    ELSE k

\* The tables a plain SELECT on connection k reads: the committed tables in
\* autocommit mode, the transaction's snapshot (taken by this SELECT when it
\* is the first) with the transaction's own writes inside a transaction.
View(k) ==
    IF ~k.open THEN db
    ELSE Apply(IF k.snap THEN k.view ELSE db, k.w)

\* Mutant of VisibleOrders: a row comes back for any id.
VisibleOrders_anyId(k) == 1 .. nextOrderId

\* The orders a SELECT on connection k returns rows for.
VisibleOrders(k) == IF k.open /\ k.snap THEN k.seen ELSE DOMAIN db.orders

\* A strict server rejects a value outside the column's ENUM.
EnumOk(v, enum) == ~sql_strict \/ v \in enum

\* A writing statement on connection c: it waits for the row locks it needs;
\* inside a transaction it joins the write set and keeps its locks, in
\* autocommit mode it is committed at once.
Write(c, d, S, X) ==
    /\ \A r \in S : CanLockS(c, r)
    /\ \A r \in X : CanLockX(c, r)
    /\ IF conn[c].open
       THEN /\ conn' = [conn EXCEPT ![c].w = Merge(@, d),
                                    ![c].S = @ \cup S,
                                    ![c].X = @ \cup X]
            /\ db' = db
       ELSE /\ db' = Apply(db, d)
            /\ conn' = conn

Running(s, op, pc) == req[s].op = op /\ req[s].pc = pc

\* The handler goes on to its next statement.
Goto(s, r) ==
    /\ req' = [req EXCEPT ![s] = r]
    /\ UNCHANGED <<prev, calls, sql_strict>>

\* The handler answers and its finally block releases the connection as k.
Respond(s, code, k) ==
    /\ req' = [req EXCEPT ![s].pc = "done", ![s].resp = code]
    /\ conn' = [conn EXCEPT ![req[s].c] = ReleaseConn(k)]
    /\ UNCHANGED <<prev, calls, sql_strict>>

\* return res.status(code) inside the try block: neither commit nor
\* rollback runs, the finally block releases the connection.
Return(s, code) ==
    /\ Respond(s, code, Snap(conn[req[s].c]))
    /\ UNCHANGED <<db, nextOrderId, nextTxnId>>

\* catch (error): rollback, next(error) (the error middleware answers 500),
\* then the finally block.
Catch(s, injected) ==
    /\ db' = RollbackDb(conn[req[s].c])
    /\ req' = [req EXCEPT ![s].pc = "done", ![s].resp = 500,
                          ![s].fault = injected, ![s].at = req[s].pc]
    /\ conn' = [conn EXCEPT ![req[s].c] = ReleaseConn(EndConn(@))]
    /\ UNCHANGED <<prev, calls, sql_strict, nextOrderId, nextTxnId>>

\* ------------------------------------------------------------------ unique keys
Range(f) == {f[x] : x \in DOMAIN f}

OrderNumberKey(n) == <<"orders.order_number", n>>
TransactionIdKey(n) == <<"transactions.transaction_id", n>>

\* `ORD-${Date.now()}-${1000 + random}`: the generated value is one that a
\* committed order or an order of a transaction in progress already has, or
\* a new one (all new values are alike; the next row id stands for them).
OrderNumbers ==
    Range(db.order_number)
        \cup UNION {Range(conn[c].w.order_number) : c \in Conns}
        \cup {nextOrderId}

\* `TXN-${Date.now()}-${1000 + random}`, in the same way.
TransactionIds ==
    Range(db.transaction_id)
        \cup UNION {Range(conn[c].w.transaction_id) : c \in Conns}
        \cup {nextTxnId}

\* Mutant of DuplicateKey: the UNIQUE index is not enforced.
DuplicateKey_unchecked(n, committed) == FALSE

\* The UNIQUE index rejects a value a committed row has (ER_DUP_ENTRY).  A
\* value held by an insert that is not committed yet makes the INSERT wait
\* for that transaction (the exclusive lock on the index record, see Write).
DuplicateKey(n, committed) == n \in Range(committed)

\* The INSERT throws ER_DUP_ENTRY for the generated value n: the catch block.
DuplicateEntry(s, n) ==
    /\ db' = RollbackDb(conn[req[s].c])
    /\ req' = [req EXCEPT ![s].pc = "done", ![s].resp = 500,
                          ![s].at = req[s].pc, ![s].key = n]
    /\ conn' = [conn EXCEPT ![req[s].c] = ReleaseConn(EndConn(@))]
    /\ UNCHANGED <<prev, calls, sql_strict, nextOrderId, nextTxnId>>

\* await connection.commit(), the success response, the finally block.
CommitAndRespond(s, code) ==
    /\ db' = CommitDb(conn[req[s].c])
    /\ Respond(s, code, EndConn(conn[req[s].c]))
    /\ UNCHANGED <<nextOrderId, nextTxnId>>

\* A request may start in slot s, the first free one.  In a sequential run
\* it starts only when no other request is in flight.
CanStart(s, sequential) ==
    /\ calls < MaxCalls
    /\ req[s].pc = "done"
    /\ \A t \in Slots : t < s => req[t].pc # "done"
    /\ sequential => \A t \in Slots : req[t].pc = "done"

\* pool.getConnection(), and beginTransaction() where the handler calls it.
\* A sequential run records the tables before the call (pre) and the call
\* that ran before it (prev).
Start(s, c, r, begins, sequential) ==
    /\ ~conn[c].busy
    /\ db' = IF begins THEN CommitDb(conn[c]) ELSE db
    /\ conn' = [conn EXCEPT ![c] =
                  [(IF begins THEN BeginConn(@) ELSE @) EXCEPT !.busy = TRUE]]
    /\ req' = [req EXCEPT ![s] = [r EXCEPT !.c = c, !.audit = sequential,
                                           !.pre = IF sequential THEN db' ELSE InitDb]]
    /\ prev' = IF sequential THEN Summary(req[s]) ELSE prev
    /\ calls' = calls + 1
    /\ UNCHANGED <<sql_strict, nextOrderId, nextTxnId>>

\* ------------------------------------------------------------------ createOrder
\* Mutant of AllProductsExist: only the first line is verified.
AllProductsExist_firstLine(items, products) == items = <<>> \/ items[1].id \in products

AllProductsExist(items, products) == \A i \in DOMAIN items : items[i].id \in products

TotalAmount(items) ==
    SumSeq([i \in DOMAIN items |-> items[i].price * items[i].quantity])

createOrder_from(lists, sequential) ==
    \E s \in Slots, c \in Conns, u \in Users, items \in lists :
        /\ CanStart(s, sequential)
        /\ Start(s, c, [Idle EXCEPT !.op = "createOrder", !.pc = "verify",
                                    !.user = u, !.items = items], TRUE, sequential)

createOrder_start(sequential) == createOrder_from(ItemLists, sequential)

createOrder_verify ==
    \E s \in Slots :
        /\ Running(s, "createOrder", "verify")
        /\ IF AllProductsExist(req[s].items, View(conn[req[s].c]).products)
           THEN /\ Goto(s, [req[s] EXCEPT !.pc = "order"])
                /\ conn' = [conn EXCEPT ![req[s].c] =
                              IF req[s].items = <<>> THEN @ ELSE Snap(@)]
                /\ UNCHANGED <<db, nextOrderId, nextTxnId>>
           ELSE Return(s, 400)

createOrder_insertOrder ==
    \E s \in Slots, n \in OrderNumbers :
        LET r == req[s]
            total == ToDecimal2(TotalAmount(r.items))
        IN  /\ Running(s, "createOrder", "order")
            /\ IF DuplicateKey(n, db.order_number)
               THEN DuplicateEntry(s, n)
               ELSE /\ Write(r.c, [EmptyW EXCEPT
                                !.orders = nextOrderId :>
                                    [user_id |-> r.user, total_amount |-> total,
                                     status |-> "pending"],
                                !.order_number = nextOrderId :> n],
                             {}, {OrderNumberKey(n)})
                    /\ nextOrderId' = nextOrderId + 1
                    /\ Goto(s, [r EXCEPT !.orderId = nextOrderId, !.total = total,
                                         !.i = 1, !.key = n,
                                         !.pc = IF r.items = <<>> THEN "txn" ELSE "item"])
                    /\ UNCHANGED nextTxnId

createOrder_insertItem ==
    \E s \in Slots :
        LET r == req[s]
            item == r.items[r.i]
        IN  /\ Running(s, "createOrder", "item")
            /\ IF item.id \in db.products \ conn[r.c].w.products_deleted
               THEN /\ Write(r.c, [EmptyW EXCEPT !.order_items =
                                     <<[order_id |-> r.orderId, product_id |-> item.id,
                                        quantity |-> item.quantity,
                                        price |-> ToDecimal2(item.price)]>>],
                             {ProductRow(item.id)}, {})
                    /\ Goto(s, [r EXCEPT !.pc = "stock"])
                    /\ UNCHANGED <<nextOrderId, nextTxnId>>
               ELSE Catch(s, FALSE)

\* Mutant of StockTaken: one unit per line.
StockTaken_oneUnit(item) == 1

\* UPDATE products SET stock = stock - ? with item.quantity
StockTaken(item) == item.quantity

createOrder_updateStock ==
    \E s \in Slots :
        LET r == req[s]
            item == r.items[r.i]
        IN  /\ Running(s, "createOrder", "stock")
            /\ Write(r.c, [EmptyW EXCEPT !.stock[item.id] = 0 - StockTaken(item)],
                     {}, {ProductRow(item.id)})
            /\ Goto(s, [r EXCEPT !.i = r.i + 1,
                                 !.pc = IF r.i < Len(r.items) THEN "item" ELSE "txn"])
            /\ UNCHANGED <<nextOrderId, nextTxnId>>

\* Mutant of NewTransaction: the row is inserted with the column's default
\* status.
NewTransaction_pending(o, amount) ==
    [order_id |-> o, amount |-> amount, status |-> "pending"]

\* Mutant of NewTransaction: the row is not tied to the new order.
NewTransaction_orphan(o, amount) ==
    [order_id |-> 0, amount |-> amount, status |-> "completed"]

\* The row of INSERT INTO transactions (order_id, ..., amount, ..., status, ...)
\* with status 'completed'.
NewTransaction(o, amount) ==
    [order_id |-> o, amount |-> amount, status |-> "completed"]

createOrder_insertTransaction ==
    \E s \in Slots, n \in TransactionIds :
        LET r == req[s]
        IN  /\ Running(s, "createOrder", "txn")
            /\ IF DuplicateKey(n, db.transaction_id)
               THEN DuplicateEntry(s, n)
               ELSE /\ Write(r.c, [EmptyW EXCEPT
                                !.transactions = nextTxnId :>
                                    NewTransaction(r.orderId, r.total),
                                !.transaction_id = nextTxnId :> n],
                             {}, {TransactionIdKey(n)})
                    /\ nextTxnId' = nextTxnId + 1
                    /\ Goto(s, [r EXCEPT !.txnId = nextTxnId, !.key = n,
                                         !.pc = "history"])
                    /\ UNCHANGED nextOrderId

createOrder_insertHistory ==
    \E s \in Slots :
        LET r == req[s]
        IN  /\ Running(s, "createOrder", "history")
            /\ Write(r.c, [EmptyW EXCEPT !.order_status_history =
                              <<[order_id |-> r.orderId, status |-> "pending"]>>],
                     {}, {})
            /\ Goto(s, [r EXCEPT !.pc = "cart"])
            /\ UNCHANGED <<nextOrderId, nextTxnId>>

\* Mutant of CartOf: every cart is the user's.
CartOf_anyUser(u) == {v \in Users : db.carts[v] > 0}

\* SELECT id FROM carts WHERE user_id = ?: the user's cart, if there is one
\* (carts.user_id is unique, so a cart is named by its user).
CartOf(u) == IF db.carts[u] > 0 THEN {u} ELSE {}

\* The SELECT of the cart and DELETE FROM cart_items WHERE cart_id = ?.
createOrder_clearCart ==
    \E s \in Slots :
        LET r == req[s]
        IN  /\ Running(s, "createOrder", "cart")
            /\ Write(r.c, [EmptyW EXCEPT !.cart_cleared = CartOf(r.user)],
                     {}, {})
            /\ Goto(s, [r EXCEPT !.pc = "commit"])
            /\ UNCHANGED <<nextOrderId, nextTxnId>>

createOrder_commit ==
    \E s \in Slots :
        /\ Running(s, "createOrder", "commit")
        /\ CommitAndRespond(s, 201)

\* ------------------------------------------------------------------ updateOrderStatus
\* The handler never calls beginTransaction: on a connection in autocommit
\* mode each statement is committed on its own and commit and rollback do
\* nothing; on a connection released with a transaction still open the
\* statements join that transaction.
updateOrderStatus_from(targets, sequential) ==
    \E s \in Slots, c \in Conns, o \in 1 .. nextOrderId, st \in targets :
        /\ CanStart(s, sequential)
        /\ Start(s, c, [Idle EXCEPT !.op = "updateOrderStatus", !.pc = "select",
                                    !.orderId = o, !.status = st], FALSE, sequential)

updateOrderStatus_start(sequential) == updateOrderStatus_from(StatusInputs, sequential)

updateOrderStatus_select ==
    \E s \in Slots :
        LET r == req[s]
        IN  /\ Running(s, "updateOrderStatus", "select")
            /\ IF r.orderId \in VisibleOrders(conn[r.c])
               THEN /\ Goto(s, [r EXCEPT !.pc = "order"])
                    /\ conn' = [conn EXCEPT ![r.c] = Snap(@)]
                    /\ UNCHANGED <<db, nextOrderId, nextTxnId>>
               ELSE Return(s, 404)

updateOrderStatus_updateOrder ==
    \E s \in Slots :
        LET r == req[s]
        IN  /\ Running(s, "updateOrderStatus", "order")
            /\ IF EnumOk(r.status, OrderStatusEnum)
               THEN /\ Write(r.c, [EmptyW EXCEPT !.orders_status =
                                     r.orderId :> StoreEnum(r.status, OrderStatusEnum)],
                             {}, {OrderRow(r.orderId)})
                    /\ Goto(s, [r EXCEPT !.pc = "history"])
                    /\ UNCHANGED <<nextOrderId, nextTxnId>>
               ELSE Catch(s, FALSE)

\* Mutant of ReturnsStock: every status change returns the stock.
ReturnsStock_always(status) == TRUE

\* if (status === "cancelled")
ReturnsStock(status) == status = "cancelled"

\* The history INSERT and, for a cancellation, the SELECT of the order's
\* items (the handler's own statements in between write no order item, so
\* the SELECT reads the same rows here as after the INSERT).
updateOrderStatus_insertHistory ==
    \E s \in Slots :
        LET r == req[s]
            rows == IF ReturnsStock(r.status) THEN ItemsOf(View(conn[r.c]), r.orderId)
                                              ELSE <<>>
        IN  /\ Running(s, "updateOrderStatus", "history")
            /\ IF EnumOk(r.status, HistoryStatusEnum)
               THEN /\ Write(r.c, [EmptyW EXCEPT !.order_status_history =
                                     <<[order_id |-> r.orderId,
                                        status |-> StoreEnum(r.status, HistoryStatusEnum)]>>],
                             {OrderRow(r.orderId)}, {})
                    /\ Goto(s, [r EXCEPT !.rows = rows, !.i = 1,
                                         !.pc = IF rows = <<>> THEN "commit" ELSE "stock"])
                    /\ UNCHANGED <<nextOrderId, nextTxnId>>
               ELSE Catch(s, FALSE)

\* UPDATE products SET stock = stock + ? for item i of the loop.
\* Mutant of StockReturned: one unit per order item.
StockReturned_oneUnit(item) == 1

StockReturned(item) == item.quantity

Restock(s) ==
    LET r == req[s]
        item == r.rows[r.i]
    IN  /\ Write(r.c, [EmptyW EXCEPT !.stock[item.product_id] = StockReturned(item)],
                 {}, {ProductRow(item.product_id)})
        /\ Goto(s, [r EXCEPT !.i = r.i + 1,
                             !.pc = IF r.i < Len(r.rows) THEN "stock" ELSE "commit"])
        /\ UNCHANGED <<nextOrderId, nextTxnId>>

updateOrderStatus_restock ==
    \E s \in Slots :
        /\ Running(s, "updateOrderStatus", "stock")
        /\ Restock(s)

updateOrderStatus_commit ==
    \E s \in Slots :
        /\ Running(s, "updateOrderStatus", "commit")
        /\ CommitAndRespond(s, 200)

\* ------------------------------------------------------------------ processPayment
\* Of req.body the handler reads orderId, paymentMethod and paymentDetails;
\* an amount in the body is not read.
processPayment_start(sequential) ==
    \E s \in Slots, c \in Conns, o \in 1 .. nextOrderId, u \in Users,
       a \in AmountInputs :
        /\ CanStart(s, sequential)
        /\ Start(s, c, [Idle EXCEPT !.op = "processPayment", !.pc = "select",
                                    !.orderId = o, !.user = u, !.body_amount = a],
                 TRUE, sequential)

\* Mutant of OwnOrder: the user is not compared.
OwnOrder_anyUser(o, u) == o \in DOMAIN db.orders

\* The order of this id and user.
OwnOrder(o, u) == o \in DOMAIN db.orders /\ db.orders[o].user_id = u

\* Mutant of ExistingPayment: the check finds nothing.
ExistingPayment_none(o) == {}

\* The payment that already exists for the order.
ExistingPayment(o) == TxnsOf(db, o)

\* Mutant of PaymentAmount: the amount is taken from the request body.
PaymentAmount_fromBody(r, order) == r.body_amount

\* The amount of the transaction row: order[0].total_amount.
PaymentAmount(r, order) == order.total_amount

\* Both SELECTs read the transaction's snapshot.
processPayment_select ==
    \E s \in Slots :
        LET r == req[s]
        IN  /\ Running(s, "processPayment", "select")
            /\ IF ~OwnOrder(r.orderId, r.user)
               THEN Return(s, 404)
               ELSE IF ExistingPayment(r.orderId) # {}
               THEN Return(s, 400)
               ELSE /\ Goto(s, [r EXCEPT !.pc = "txn",
                                         !.total = PaymentAmount(r, db.orders[r.orderId])])
                    /\ conn' = [conn EXCEPT ![r.c] = Snap(@)]
                    /\ UNCHANGED <<db, nextOrderId, nextTxnId>>

processPayment_insertTransaction ==
    \E s \in Slots, n \in TransactionIds :
        LET r == req[s]
        IN  /\ Running(s, "processPayment", "txn")
            /\ IF DuplicateKey(n, db.transaction_id)
               THEN DuplicateEntry(s, n)
               ELSE /\ Write(r.c, [EmptyW EXCEPT
                                !.transactions = nextTxnId :>
                                    [order_id |-> r.orderId, amount |-> r.total,
                                     status |-> "completed"],
                                !.transaction_id = nextTxnId :> n],
                             {OrderRow(r.orderId)}, {TransactionIdKey(n)})
                    /\ nextTxnId' = nextTxnId + 1
                    /\ Goto(s, [r EXCEPT !.txnId = nextTxnId, !.key = n, !.pc = "order"])
                    /\ UNCHANGED nextOrderId

processPayment_updateOrder ==
    \E s \in Slots :
        LET r == req[s]
        IN  /\ Running(s, "processPayment", "order")
            /\ Write(r.c, [EmptyW EXCEPT !.orders_status = r.orderId :> "processing"],
                     {}, {OrderRow(r.orderId)})
            /\ Goto(s, [r EXCEPT !.pc = "history"])
            /\ UNCHANGED <<nextOrderId, nextTxnId>>

processPayment_insertHistory ==
    \E s \in Slots :
        LET r == req[s]
        IN  /\ Running(s, "processPayment", "history")
            /\ Write(r.c, [EmptyW EXCEPT !.order_status_history =
                              <<[order_id |-> r.orderId, status |-> "processing"]>>],
                     {OrderRow(r.orderId)}, {})
            /\ Goto(s, [r EXCEPT !.pc = "commit"])
            /\ UNCHANGED <<nextOrderId, nextTxnId>>

processPayment_commit ==
    \E s \in Slots :
        /\ Running(s, "processPayment", "commit")
        /\ CommitAndRespond(s, 201)

\* ------------------------------------------------------------------ processRefund
\* req.body.amount and req.body.reason only reach the notes of the history
\* entry, which the model leaves out.
processRefund_start(sequential) ==
    \E s \in Slots, c \in Conns, t \in 1 .. nextTxnId :
        /\ CanStart(s, sequential)
        /\ Start(s, c, [Idle EXCEPT !.op = "processRefund", !.pc = "select",
                                    !.txnId = t], TRUE, sequential)

\* Mutant of AlreadyRefunded: the status is not looked at.
AlreadyRefunded_never(t) == FALSE

AlreadyRefunded(t) == db.transactions[t].status = "refunded"

processRefund_select ==
    \E s \in Slots :
        LET r == req[s]
        IN  /\ Running(s, "processRefund", "select")
            /\ IF r.txnId \notin DOMAIN db.transactions
               THEN Return(s, 404)
               ELSE IF AlreadyRefunded(r.txnId)
               THEN Return(s, 400)
               ELSE /\ Goto(s, [r EXCEPT !.pc = "txn",
                                         !.orderId = db.transactions[r.txnId].order_id])
                    /\ conn' = [conn EXCEPT ![r.c] = Snap(@)]
                    /\ UNCHANGED <<db, nextOrderId, nextTxnId>>

processRefund_updateTransaction ==
    \E s \in Slots :
        LET r == req[s]
        IN  /\ Running(s, "processRefund", "txn")
            /\ Write(r.c, [EmptyW EXCEPT !.transactions_status = r.txnId :> "refunded"],
                     {}, {TxnRow(r.txnId)})
            /\ Goto(s, [r EXCEPT !.pc = "order"])
            /\ UNCHANGED <<nextOrderId, nextTxnId>>

processRefund_updateOrder ==
    \E s \in Slots :
        LET r == req[s]
        IN  /\ Running(s, "processRefund", "order")
            /\ IF EnumOk("refunded", OrderStatusEnum)
               THEN /\ Write(r.c, [EmptyW EXCEPT !.orders_status =
                                     r.orderId :> StoreEnum("refunded", OrderStatusEnum)],
                             {}, {OrderRow(r.orderId)})
                    /\ Goto(s, [r EXCEPT !.pc = "history"])
                    /\ UNCHANGED <<nextOrderId, nextTxnId>>
               ELSE Catch(s, FALSE)

\* The history INSERT and the SELECT of the order's items.
processRefund_insertHistory ==
    \E s \in Slots :
        LET r == req[s]
            rows == ItemsOf(View(conn[r.c]), r.orderId)
        IN  /\ Running(s, "processRefund", "history")
            /\ IF EnumOk("refunded", HistoryStatusEnum)
               THEN /\ Write(r.c, [EmptyW EXCEPT !.order_status_history =
                                     <<[order_id |-> r.orderId,
                                        status |-> StoreEnum("refunded", HistoryStatusEnum)]>>],
                             {OrderRow(r.orderId)}, {})
                    /\ Goto(s, [r EXCEPT !.rows = rows, !.i = 1,
                                         !.pc = IF rows = <<>> THEN "commit" ELSE "stock"])
                    /\ UNCHANGED <<nextOrderId, nextTxnId>>
               ELSE Catch(s, FALSE)

processRefund_restock ==
    \E s \in Slots :
        /\ Running(s, "processRefund", "stock")
        /\ Restock(s)

processRefund_commit ==
    \E s \in Slots :
        /\ Running(s, "processRefund", "commit")
        /\ CommitAndRespond(s, 200)

\* ------------------------------------------------------------------ getOrderById
\* pool.query(sql): a free connection of the pool runs the one statement and
\* goes back to the pool.  A plain SELECT takes no row lock.
PoolSelect(c) ==
    /\ ~conn[c].busy
    /\ conn' = [conn EXCEPT ![c] = Snap(@)]
    /\ UNCHANGED <<db, nextOrderId, nextTxnId>>

\* A handler that borrows no connection starts.
StartPooled(s, r) ==
    /\ CanStart(s, FALSE)
    /\ req' = [req EXCEPT ![s] = r]
    /\ calls' = calls + 1
    /\ UNCHANGED <<db, conn, prev, sql_strict, nextOrderId, nextTxnId>>

\* The handler answers; it holds no connection.
Answer(s, code, r) ==
    /\ req' = [req EXCEPT ![s] = [r EXCEPT !.pc = "done", !.resp = code]]
    /\ UNCHANGED <<prev, calls, sql_strict>>

\* Mutant of OwnedIn: the user is not compared.
OwnedIn_anyUser(v, o, u) == o \in DOMAIN v.orders

\* SELECT * FROM orders WHERE id = ? AND user_id = ? finds a row.
OwnedIn(v, o, u) == o \in DOMAIN v.orders /\ v.orders[o].user_id = u

getOrderById_start ==
    \E s \in Slots, o \in 1 .. nextOrderId, u \in Users :
        StartPooled(s, [Idle EXCEPT !.op = "getOrderById", !.pc = "order",
                                    !.orderId = o, !.user = u])

getOrderById_order ==
    \E s \in Slots, c \in Conns :
        LET r == req[s]
            v == View(conn[c])
        IN  /\ Running(s, "getOrderById", "order")
            /\ PoolSelect(c)
            /\ IF OwnedIn(v, r.orderId, r.user)
               THEN Goto(s, [r EXCEPT !.status = v.orders[r.orderId].status,
                                      !.pc = "items"])
               ELSE Answer(s, 404, r)

getOrderById_items ==
    \E s \in Slots, c \in Conns :
        LET r == req[s]
        IN  /\ Running(s, "getOrderById", "items")
            /\ PoolSelect(c)
            /\ Goto(s, [r EXCEPT !.rows = ItemsOf(View(conn[c]), r.orderId),
                                 !.pc = "history"])

getOrderById_history ==
    \E s \in Slots, c \in Conns :
        LET r == req[s]
        IN  /\ Running(s, "getOrderById", "history")
            /\ PoolSelect(c)
            /\ Goto(s, [r EXCEPT !.history = HistoryOf(View(conn[c]), r.orderId),
                                 !.pc = "txn"])

getOrderById_transaction ==
    \E s \in Slots, c \in Conns :
        LET r == req[s]
        IN  /\ Running(s, "getOrderById", "txn")
            /\ PoolSelect(c)
            /\ Answer(s, 200, [r EXCEPT !.txns = TxnsOf(View(conn[c]), r.orderId)])

\* A query throws: catch (error) { next(error) }.
getOrderById_fails ==
    \E s \in Slots :
        /\ req[s].op = "getOrderById" /\ req[s].pc # "done"
        /\ Answer(s, 500, [req[s] EXCEPT !.fault = TRUE, !.at = req[s].pc])
        /\ UNCHANGED <<db, conn, nextOrderId, nextTxnId>>

\* ------------------------------------------------------------------ getTransactionById
RoleIds == {1, 2}        \* roles.id: 1 'admin', 2 'user'

\* req.user as verifyToken sets it: the row of users (id, name, email,
\* password, role_id, ...).
UserRow(u, role_id) == [id |-> u, role_id |-> role_id]

\* The row of SELECT t.*, o.order_number, o.total_amount, u.name as
\* user_name, u.email as user_email FROM transactions t JOIN orders o ...
TransactionJoinRow(v, t) ==
    [id |-> t,
     order_id |-> v.transactions[t].order_id,
     amount |-> v.transactions[t].amount,
     status |-> v.transactions[t].status,
     order_number |-> v.order_number[v.transactions[t].order_id],
     total_amount |-> v.orders[v.transactions[t].order_id].total_amount]

\* row.name in JavaScript: the value of the property, or undefined when the
\* object has no such property.
Prop(row, name) ==
    IF name \in DOMAIN row THEN [type |-> "defined", val |-> row[name]]
                           ELSE [type |-> "undefined", val |-> 0]

Value(x) == [type |-> "defined", val |-> x]

\* a !== b
StrictNotEqual(a, b) == ~(a.type = b.type /\ a.val = b.val)

\* req.user.role !== 'admin' && transaction[0].user_id !== req.user.id
NotAuthorized(user, transaction) ==
    /\ StrictNotEqual(Prop(user, "role"), Value("admin"))
    /\ StrictNotEqual(Prop(transaction, "user_id"), Prop(user, "id"))

getTransactionById_start ==
    \E s \in Slots, t \in 1 .. nextTxnId, u \in Users, role \in RoleIds :
        StartPooled(s, [Idle EXCEPT !.op = "getTransactionById", !.pc = "select",
                                    !.txnId = t, !.user = u, !.role_id = role])

\* The SELECT of the transaction and the two checks.  For a caller who
\* passes them the SELECTs of the order and of its items and the response
\* are taken in the same step.
getTransactionById_select ==
    \E s \in Slots, c \in Conns :
        LET r == req[s]
            v == View(conn[c])
        IN  /\ Running(s, "getTransactionById", "select")
            /\ PoolSelect(c)
            /\ IF r.txnId \notin DOMAIN v.transactions
               THEN Answer(s, 404, r)
               ELSE IF NotAuthorized(UserRow(r.user, r.role_id),
                                     TransactionJoinRow(v, r.txnId))
               THEN Answer(s, 403, r)
               ELSE Answer(s, 200,
                           [r EXCEPT !.orderId = v.transactions[r.txnId].order_id,
                                     !.txns = {r.txnId},
                                     !.rows = ItemsOf(v, v.transactions[r.txnId].order_id)])

\* The query throws: catch (error) { next(error) }.
getTransactionById_fails ==
    \E s \in Slots :
        /\ req[s].op = "getTransactionById" /\ req[s].pc # "done"
        /\ Answer(s, 500, [req[s] EXCEPT !.fault = TRUE, !.at = req[s].pc])
        /\ UNCHANGED <<db, conn, nextOrderId, nextTxnId>>

\* ------------------------------------------------------------------ updateProduct
\* The request carries no file, so nothing is uploaded.  Product 3 has no
\* row.  name, category, description, price, key_features and image_url are
\* written the same way as stock and are left out.
updateProduct_start ==
    \E s \in Slots, p \in ProductIds \cup {3}, b \in StockInputs :
        StartPooled(s, [Idle EXCEPT !.op = "updateProduct", !.pc = "select",
                                    !.productId = p, !.body_stock = b])

updateProduct_select ==
    \E s \in Slots, c \in Conns :
        LET r == req[s]
        IN  /\ Running(s, "updateProduct", "select")
            /\ PoolSelect(c)
            /\ IF r.productId \in View(conn[c]).products
               THEN Goto(s, [r EXCEPT !.read_stock = View(conn[c]).stock[r.productId],
                                      !.pc = "update"])
               ELSE Answer(s, 404, r)

\* updatedFields.stock: req.body.stock ? parseInt(req.body.stock)
\*                                     : product[0].stock
UpdatedStock(r) == IF r.body_stock # 0 THEN r.body_stock ELSE r.read_stock

\* pool.query(UPDATE products SET ..., stock = ? WHERE id = ?)
updateProduct_update ==
    \E s \in Slots, c \in Conns :
        LET r == req[s]
        IN  /\ Running(s, "updateProduct", "update")
            /\ ~conn[c].busy
            /\ Write(c, [EmptyW EXCEPT !.stock_set = r.productId :>
                              [value |-> UpdatedStock(r), given |-> r.body_stock # 0]],
                     {}, {ProductRow(r.productId)})
            /\ Goto(s, [r EXCEPT !.pc = "reload"])
            /\ UNCHANGED <<nextOrderId, nextTxnId>>

\* The SELECT of the updated product and the response.
updateProduct_respond ==
    \E s \in Slots, c \in Conns :
        /\ Running(s, "updateProduct", "reload")
        /\ PoolSelect(c)
        /\ Answer(s, 200, req[s])

\* A query throws: catch (error) { next(error) }.
updateProduct_fails ==
    \E s \in Slots :
        /\ req[s].op = "updateProduct" /\ req[s].pc # "done"
        /\ Answer(s, 500, [req[s] EXCEPT !.fault = TRUE, !.at = req[s].pc])
        /\ UNCHANGED <<db, conn, nextOrderId, nextTxnId>>

\* ------------------------------------------------------------------ deleteProduct
deleteProduct_start ==
    \E s \in Slots, p \in ProductIds \cup {3} :
        StartPooled(s, [Idle EXCEPT !.op = "deleteProduct", !.pc = "select",
                                    !.productId = p])

deleteProduct_select ==
    \E s \in Slots, c \in Conns :
        LET r == req[s]
        IN  /\ Running(s, "deleteProduct", "select")
            /\ PoolSelect(c)
            /\ IF r.productId \in View(conn[c]).products
               THEN Goto(s, [r EXCEPT !.pc = "delete"])
               ELSE Answer(s, 404, r)

\* pool.query(DELETE FROM products WHERE id = ?), then res.json.  The
\* order_items and cart_items of the product go with it.
deleteProduct_delete ==
    \E s \in Slots, c \in Conns :
        LET r == req[s]
        IN  /\ Running(s, "deleteProduct", "delete")
            /\ ~conn[c].busy
            /\ Write(c, [EmptyW EXCEPT !.products_deleted = {r.productId}],
                     {}, {ProductRow(r.productId)})
            /\ Answer(s, 200, r)
            /\ UNCHANGED <<nextOrderId, nextTxnId>>

\* A query throws: catch (error) { next(error) }.
deleteProduct_fails ==
    \E s \in Slots :
        /\ req[s].op = "deleteProduct" /\ req[s].pc # "done"
        /\ Answer(s, 500, [req[s] EXCEPT !.fault = TRUE, !.at = req[s].pc])
        /\ UNCHANGED <<db, conn, nextOrderId, nextTxnId>>

\* ------------------------------------------------------------------ faults
\* The handlers that borrow a connection for the whole request.
ConnHandlers == {"createOrder", "updateOrderStatus", "processPayment", "processRefund"}

\* Any awaited call on the connection may throw (a lost connection, a lock
\* wait timeout, a deadlock victim, a duplicate key): the catch block runs.
StorageFault ==
    \E s \in Slots :
        /\ req[s].pc # "done"
        /\ req[s].op \in ConnHandlers
        /\ Catch(s, TRUE)

Steps ==
    \/ createOrder_verify
    \/ createOrder_insertOrder
    \/ createOrder_insertItem
    \/ createOrder_updateStock
    \/ createOrder_insertTransaction
    \/ createOrder_insertHistory
    \/ createOrder_clearCart
    \/ createOrder_commit
    \/ updateOrderStatus_select
    \/ updateOrderStatus_updateOrder
    \/ updateOrderStatus_insertHistory
    \/ updateOrderStatus_restock
    \/ updateOrderStatus_commit
    \/ processPayment_select
    \/ processPayment_insertTransaction
    \/ processPayment_updateOrder
    \/ processPayment_insertHistory
    \/ processPayment_commit
    \/ processRefund_select
    \/ processRefund_updateTransaction
    \/ processRefund_updateOrder
    \/ processRefund_insertHistory
    \/ processRefund_restock
    \/ processRefund_commit
    \/ StorageFault

\* Requests run concurrently.
Next ==
    \/ createOrder_start(FALSE)
    \/ updateOrderStatus_start(FALSE)
    \/ processPayment_start(FALSE)
    \/ processRefund_start(FALSE)
    \/ Steps

Spec == Init /\ [][Next]_vars

\* Requests run one after the other.
SeqNext ==
    \/ createOrder_start(TRUE)
    \/ updateOrderStatus_start(TRUE)
    \/ processPayment_start(TRUE)
    \/ processRefund_start(TRUE)
    \/ Steps

SeqSpec == Init /\ [][SeqNext]_vars

\* Requests run concurrently with the handlers that run their statements
\* through pool.query.
ShopNext ==
    \/ Next
    \/ getOrderById_start
    \/ getOrderById_order
    \/ getOrderById_items
    \/ getOrderById_history
    \/ getOrderById_transaction
    \/ getOrderById_fails
    \/ updateProduct_start
    \/ updateProduct_select
    \/ updateProduct_update
    \/ updateProduct_respond
    \/ updateProduct_fails

ShopSpec == Init /\ [][ShopNext]_vars

\* Requests run one after the other while an administrator deletes
\* products.
CatalogNext ==
    \/ SeqNext
    \/ deleteProduct_start
    \/ deleteProduct_select
    \/ deleteProduct_delete
    \/ deleteProduct_fails

CatalogSpec == Init /\ [][CatalogNext]_vars

\* An administrator sets order statuses, one request after the other, with
\* every target status.
StatusNext ==
    \/ updateOrderStatus_from(StatusTargets, TRUE)
    \/ updateOrderStatus_select
    \/ updateOrderStatus_updateOrder
    \/ updateOrderStatus_insertHistory
    \/ updateOrderStatus_restock
    \/ updateOrderStatus_commit
    \/ StorageFault

StatusSpec == Init /\ [][StatusNext]_vars

\* Customers check out, one request after the other, with quantities of
\* either sign.
CheckoutNext ==
    \/ createOrder_from(SignedItemLists, TRUE)
    \/ createOrder_verify
    \/ createOrder_insertOrder
    \/ createOrder_insertItem
    \/ createOrder_updateStock
    \/ createOrder_insertTransaction
    \/ createOrder_insertHistory
    \/ createOrder_clearCart
    \/ createOrder_commit
    \/ StorageFault

CheckoutSpec == Init /\ [][CheckoutNext]_vars

\* The writing workflows run one after the other while customers and
\* administrators read orders and transactions.
ReadNext ==
    \/ SeqNext
    \/ getOrderById_start
    \/ getOrderById_order
    \/ getOrderById_items
    \/ getOrderById_history
    \/ getOrderById_transaction
    \/ getOrderById_fails
    \/ getTransactionById_start
    \/ getTransactionById_select
    \/ getTransactionById_fails

ReadSpec == Init /\ [][ReadNext]_vars

\* ------------------------------------------------------------------ cart
\* A value of req.body.quantity: a JSON number, in tenths, or no value.
Num(tenths) == [given |-> TRUE, tenths |-> tenths]
Undefined == [given |-> FALSE, tenths |-> 0]

\* const { productId, quantity = 1 } = req.body
OrDefault(q, tenths) == IF q.given THEN q ELSE Num(tenths)

\* The INT column cart_items.quantity holds the integer nearest to the
\* number written to it (a half rounds away from zero).
StoreInt(tenths) ==
    IF tenths >= 0 THEN (tenths + 5) \div 10 ELSE -((5 - tenths) \div 10)

\* UNIQUE KEY unique_user_cart (user_id) and UNIQUE KEY unique_cart_product
\* (cart_id, product_id): the index records, and the values committed rows
\* hold.
CartKey(u) == <<"carts.user_id", u>>
CartItemRow(u, p) == <<"cart_items", u, p>>
CartUsers(d) == [u \in {v \in Users : d.carts[v] > 0} |-> u]
CartItemKeys(d) ==
    [k \in {<<u, p>> \in Users \X ProductIds : d.cart_items[u][p] # <<>>} |-> k]

\* req.params.itemId names a cart_items row: the row of (cart of user v,
\* product p), or a row that does not exist.
CartItemIds == Users \X ProductIds

\* ... FROM cart_items ci JOIN carts c ON ci.cart_id = c.id
\* WHERE ci.id = ? AND c.user_id = ?: the row, if it is in the user's cart.
ItemOfUser(v, u, item) ==
    IF item[1] = u /\ v.carts[u] > 0 THEN v.cart_items[u][item[2]] ELSE <<>>

\* The index records the next statement of request r locks.
CartLocks(r) ==
    CASE r.pc = "newcart" -> {CartKey(r.user)}
      [] r.pc \in {"insert", "update", "delete"} /\ r.op = "clearCart" ->
             {CartItemRow(r.user, p) : p \in ProductIds}
      [] r.pc \in {"insert", "update", "delete"} ->
             {CartItemRow(r.user, r.productId)}
      [] OTHER -> {}

\* A statement on carts or cart_items runs and the handler goes on at pc.
CartWrite(s, d, pc) ==
    /\ Write(req[s].c, d, {}, CartLocks(req[s]))
    /\ Goto(s, [req[s] EXCEPT !.pc = pc])
    /\ UNCHANGED <<nextOrderId, nextTxnId>>

\* A SELECT runs and the handler goes on as r.
CartRead(s, r) ==
    /\ conn' = [conn EXCEPT ![req[s].c] = Snap(@)]
    /\ Goto(s, r)
    /\ UNCHANGED <<db, nextOrderId, nextTxnId>>

\* INSERT INTO carts (user_id) VALUES (?)
InsertCart(s, pc) ==
    IF DuplicateKey(req[s].user, CartUsers(db))
    THEN DuplicateEntry(s, req[s].user)
    ELSE CartWrite(s, [EmptyW EXCEPT !.cart_ops =
                          <<CartOp("cart", req[s].user, 0, 0)>>], pc)

\* Mutant of OwnConnection: the caller keeps its connection while getCart
\* runs.
OwnConnection_held(k) == [k EXCEPT !.busy = TRUE]

\* The finally block of the handler that returned getCart(req, res, next):
\* connection.release(), run before getCart goes on.
OwnConnection(k) == ReleaseConn(k)

\* await connection.commit(); return getCart(req, res, next): getCart runs
\* up to its await pool.getConnection(), which takes a free connection when
\* there is one and queues the request when there is none; then the
\* caller's finally block releases the caller's connection.
CommitThenGetCart(s) ==
    LET r == req[s]
        free == {c \in Conns : ~conn[c].busy}
        call == [r EXCEPT !.via = r.op, !.op = "getCart"]
    IN  /\ db' = CommitDb(conn[r.c])
        /\ \/ \E c \in free :
                /\ conn' = [conn EXCEPT ![r.c] = OwnConnection(EndConn(@)),
                                        ![c].busy = TRUE]
                /\ req' = [req EXCEPT ![s] = [call EXCEPT !.pc = "begin", !.c = c]]
           \/ /\ free = {}
              /\ conn' = [conn EXCEPT ![r.c] = OwnConnection(EndConn(@))]
              /\ req' = [req EXCEPT ![s] = [call EXCEPT !.pc = "wait",
                                                        !.queued = TRUE]]
        /\ UNCHANGED <<prev, calls, sql_strict, nextOrderId, nextTxnId>>

\* ------------------------------------------------------------------ getCart
getCart_start(sequential) ==
    \E s \in Slots, c \in Conns, u \in Users :
        /\ CanStart(s, sequential)
        /\ Start(s, c, [Idle EXCEPT !.op = "getCart", !.pc = "carts",
                                    !.user = u], TRUE, sequential)

\* The queued pool.getConnection() of a getCart that another handler
\* called is given a connection that was released.
getCart_acquire ==
    \E s \in Slots, c \in Conns :
        /\ Running(s, "getCart", "wait")
        /\ ~conn[c].busy
        /\ conn' = [conn EXCEPT ![c].busy = TRUE]
        /\ Goto(s, [req[s] EXCEPT !.pc = "begin", !.c = c])
        /\ UNCHANGED <<db, nextOrderId, nextTxnId>>

\* await connection.beginTransaction() of such a getCart.
getCart_begin ==
    \E s \in Slots :
        /\ Running(s, "getCart", "begin")
        /\ db' = CommitDb(conn[req[s].c])
        /\ conn' = [conn EXCEPT ![req[s].c] = [BeginConn(@) EXCEPT !.busy = TRUE]]
        /\ Goto(s, [req[s] EXCEPT !.pc = "carts"])
        /\ UNCHANGED <<nextOrderId, nextTxnId>>

\* SELECT * FROM carts WHERE user_id = ?
getCart_selectCart ==
    \E s \in Slots :
        LET r == req[s]
            v == View(Snap(conn[r.c]))
        IN  /\ Running(s, "getCart", "carts")
            /\ CartRead(s, [r EXCEPT !.pc = IF v.carts[r.user] > 0
                                            THEN "items" ELSE "newcart"])

getCart_insertCart ==
    \E s \in Slots :
        /\ Running(s, "getCart", "newcart")
        /\ InsertCart(s, "items")

\* SELECT ci.*, ... FROM cart_items ci JOIN products p ... WHERE
\* ci.cart_id = ?: the quantities of the cart's rows, by product.
getCart_selectItems ==
    \E s \in Slots :
        LET r == req[s]
            v == View(Snap(conn[r.c]))
        IN  /\ Running(s, "getCart", "items")
            /\ CartRead(s, [r EXCEPT !.pc = "commit",
                                     !.rows = v.cart_items[r.user]])

getCart_commit ==
    \E s \in Slots :
        /\ Running(s, "getCart", "commit")
        /\ CommitAndRespond(s, 200)

\* ------------------------------------------------------------------ addToCart
addToCart_from(products, quantities, sequential) ==
    \E s \in Slots, c \in Conns, u \in Users, p \in products, q \in quantities :
        /\ CanStart(s, sequential)
        /\ Start(s, c, [Idle EXCEPT !.op = "addToCart", !.pc = "product",
                                    !.user = u, !.productId = p,
                                    !.quantity = OrDefault(q, 10)],
                 TRUE, sequential)

\* The validation of the body, SELECT * FROM products WHERE id = ? and the
\* stock check.  productId 0 is a body without productId.
addToCart_selectProduct ==
    \E s \in Slots :
        LET r == req[s]
            v == View(Snap(conn[r.c]))
        IN  /\ Running(s, "addToCart", "product")
            /\ IF r.productId = 0 \/ r.quantity.tenths < 10
               THEN /\ Respond(s, 400, conn[r.c])
                    /\ UNCHANGED <<db, nextOrderId, nextTxnId>>
               ELSE IF r.productId \notin v.products
               THEN Return(s, 404)
               ELSE IF v.stock[r.productId] * 10 < r.quantity.tenths
               THEN Return(s, 400)
               ELSE CartRead(s, [r EXCEPT !.pc = "cart",
                                          !.read_stock = v.stock[r.productId]])

addToCart_selectCart ==
    \E s \in Slots :
        LET r == req[s]
            v == View(Snap(conn[r.c]))
        IN  /\ Running(s, "addToCart", "cart")
            /\ CartRead(s, [r EXCEPT !.pc = IF v.carts[r.user] > 0
                                            THEN "item" ELSE "newcart"])

addToCart_insertCart ==
    \E s \in Slots :
        /\ Running(s, "addToCart", "newcart")
        /\ InsertCart(s, "item")

\* SELECT * FROM cart_items WHERE cart_id = ? AND product_id = ?
ExistingItems(v, u, p) == v.cart_items[u][p]

\* That SELECT, newQuantity = existingItems[0].quantity + quantity and the
\* second stock check (total is newQuantity, in tenths).
addToCart_selectItem ==
    \E s \in Slots :
        LET r == req[s]
            v == View(Snap(conn[r.c]))
            existingItems == ExistingItems(v, r.user, r.productId)
            newQuantity == existingItems[1] * 10 + r.quantity.tenths
        IN  /\ Running(s, "addToCart", "item")
            /\ IF existingItems = <<>>
               THEN CartRead(s, [r EXCEPT !.pc = "insert"])
               ELSE IF r.read_stock * 10 < newQuantity
               THEN Return(s, 400)
               ELSE CartRead(s, [r EXCEPT !.pc = "update", !.total = newQuantity])

\* UPDATE cart_items SET quantity = ?, ... WHERE id = ?
addToCart_update ==
    \E s \in Slots :
        LET r == req[s]
        IN  /\ Running(s, "addToCart", "update")
            /\ CartWrite(s, [EmptyW EXCEPT !.cart_ops =
                   <<CartOp("set", r.user, r.productId, StoreInt(r.total))>>],
                   "commit")

\* INSERT INTO cart_items (cart_id, product_id, quantity) VALUES (?, ?, ?)
addToCart_insert ==
    \E s \in Slots :
        LET r == req[s]
        IN  /\ Running(s, "addToCart", "insert")
            /\ IF DuplicateKey(<<r.user, r.productId>>, CartItemKeys(db))
               THEN DuplicateEntry(s, r.productId)
               ELSE CartWrite(s, [EmptyW EXCEPT !.cart_ops =
                       <<CartOp("insert", r.user, r.productId,
                                StoreInt(r.quantity.tenths))>>], "commit")

addToCart_commit ==
    \E s \in Slots :
        /\ Running(s, "addToCart", "commit")
        /\ CommitThenGetCart(s)

\* ------------------------------------------------------------------ updateCartItem
updateCartItem_from(quantities, sequential) ==
    \E s \in Slots, c \in Conns, u \in Users, item \in CartItemIds,
       q \in quantities :
        /\ CanStart(s, sequential)
        /\ Start(s, c, [Idle EXCEPT !.op = "updateCartItem", !.pc = "item",
                                    !.user = u, !.item = item,
                                    !.productId = item[2], !.quantity = q],
                 TRUE, sequential)

\* The validation of the body, the SELECT of the item with the product's
\* stock, and the choice between DELETE and UPDATE.
updateCartItem_select ==
    \E s \in Slots :
        LET r == req[s]
            v == View(Snap(conn[r.c]))
            items == IF r.productId \in v.products
                     THEN ItemOfUser(v, r.user, r.item) ELSE <<>>
        IN  /\ Running(s, "updateCartItem", "item")
            /\ IF ~r.quantity.given \/ r.quantity.tenths < 0
               THEN /\ Respond(s, 400, conn[r.c])
                    /\ UNCHANGED <<db, nextOrderId, nextTxnId>>
               ELSE IF items = <<>>
               THEN Return(s, 404)
               ELSE IF r.quantity.tenths = 0
               THEN CartRead(s, [r EXCEPT !.pc = "delete"])
               ELSE IF v.stock[r.productId] * 10 < r.quantity.tenths
               THEN Return(s, 400)
               ELSE CartRead(s, [r EXCEPT !.pc = "update"])

\* DELETE FROM cart_items WHERE id = ?
updateCartItem_delete ==
    \E s \in Slots :
        LET r == req[s]
        IN  /\ Running(s, "updateCartItem", "delete")
            /\ CartWrite(s, [EmptyW EXCEPT !.cart_ops =
                   <<CartOp("delete", r.user, r.productId, 0)>>], "commit")

\* UPDATE cart_items SET quantity = ?, ... WHERE id = ?
updateCartItem_update ==
    \E s \in Slots :
        LET r == req[s]
        IN  /\ Running(s, "updateCartItem", "update")
            /\ CartWrite(s, [EmptyW EXCEPT !.cart_ops =
                   <<CartOp("set", r.user, r.productId,
                            StoreInt(r.quantity.tenths))>>], "commit")

updateCartItem_commit ==
    \E s \in Slots :
        /\ Running(s, "updateCartItem", "commit")
        /\ CommitThenGetCart(s)

\* ------------------------------------------------------------------ removeFromCart
removeFromCart_start(sequential) ==
    \E s \in Slots, c \in Conns, u \in Users, item \in CartItemIds :
        /\ CanStart(s, sequential)
        /\ Start(s, c, [Idle EXCEPT !.op = "removeFromCart", !.pc = "item",
                                    !.user = u, !.item = item,
                                    !.productId = item[2]],
                 TRUE, sequential)

removeFromCart_select ==
    \E s \in Slots :
        LET r == req[s]
            v == View(Snap(conn[r.c]))
        IN  /\ Running(s, "removeFromCart", "item")
            /\ IF ItemOfUser(v, r.user, r.item) = <<>>
               THEN Return(s, 404)
               ELSE CartRead(s, [r EXCEPT !.pc = "delete"])

removeFromCart_delete ==
    \E s \in Slots :
        LET r == req[s]
        IN  /\ Running(s, "removeFromCart", "delete")
            /\ CartWrite(s, [EmptyW EXCEPT !.cart_ops =
                   <<CartOp("delete", r.user, r.productId, 0)>>], "commit")

removeFromCart_commit ==
    \E s \in Slots :
        /\ Running(s, "removeFromCart", "commit")
        /\ CommitThenGetCart(s)

\* ------------------------------------------------------------------ clearCart
clearCart_start(sequential) ==
    \E s \in Slots, c \in Conns, u \in Users :
        /\ CanStart(s, sequential)
        /\ Start(s, c, [Idle EXCEPT !.op = "clearCart", !.pc = "cart",
                                    !.user = u], TRUE, sequential)

\* SELECT id FROM carts WHERE user_id = ?; without a cart the handler
\* returns res.json inside the try block.
clearCart_select ==
    \E s \in Slots :
        LET r == req[s]
            v == View(Snap(conn[r.c]))
        IN  /\ Running(s, "clearCart", "cart")
            /\ IF v.carts[r.user] = 0
               THEN Return(s, 200)
               ELSE CartRead(s, [r EXCEPT !.pc = "delete"])

\* DELETE FROM cart_items WHERE cart_id = ?
clearCart_delete ==
    \E s \in Slots :
        LET r == req[s]
        IN  /\ Running(s, "clearCart", "delete")
            /\ CartWrite(s, [EmptyW EXCEPT !.cart_cleared = {r.user}], "commit")

clearCart_commit ==
    \E s \in Slots :
        /\ Running(s, "clearCart", "commit")
        /\ CommitAndRespond(s, 200)

\* A statement that waits for an index record another transaction holds
\* gives up after innodb_lock_wait_timeout: the catch block runs.
CartHandlers ==
    {"getCart", "addToCart", "updateCartItem", "removeFromCart", "clearCart"}

cart_lockWaitTimeout ==
    \E s \in Slots :
        /\ req[s].op \in CartHandlers /\ req[s].pc # "done"
        /\ \E k \in CartLocks(req[s]) : ~CanLockX(req[s].c, k)
        /\ Catch(s, FALSE)

\* req.body of the cart requests tried: productId missing (0), of a row (1,
\* 2) and of no row (3); quantity missing, 0, 0.4, 1, 2, 3 and -1.
CartProducts == {0, 1, 2, 3}
AddQuantities == {Undefined, Num(0), Num(10), Num(20)}
UpdateQuantities == {Undefined, Num(-10), Num(0), Num(4), Num(20), Num(30)}

CartSteps ==
    \/ getCart_acquire
    \/ getCart_begin
    \/ getCart_selectCart
    \/ getCart_insertCart
    \/ getCart_selectItems
    \/ getCart_commit
    \/ addToCart_selectProduct
    \/ addToCart_selectCart
    \/ addToCart_insertCart
    \/ addToCart_selectItem
    \/ addToCart_update
    \/ addToCart_insert
    \/ addToCart_commit
    \/ updateCartItem_select
    \/ updateCartItem_delete
    \/ updateCartItem_update
    \/ updateCartItem_commit
    \/ removeFromCart_select
    \/ removeFromCart_delete
    \/ removeFromCart_commit
    \/ clearCart_select
    \/ clearCart_delete
    \/ clearCart_commit
    \/ cart_lockWaitTimeout

\* The cart requests, run concurrently.
CartNext ==
    \/ getCart_start(FALSE)
    \/ addToCart_from(CartProducts, AddQuantities, FALSE)
    \/ updateCartItem_from(UpdateQuantities, FALSE)
    \/ removeFromCart_start(FALSE)
    \/ clearCart_start(FALSE)
    \/ CartSteps

CartSpec == Init /\ [][CartNext]_vars

\* As many concurrent cart requests as the pool has connections, with one
\* body per handler (updateCartItem with the quantities 0 and 2).
PoolNext ==
    \/ getCart_start(FALSE)
    \/ addToCart_from({1, 2}, {Num(10)}, FALSE)
    \/ updateCartItem_from({Num(0), Num(20)}, FALSE)
    \/ removeFromCart_start(FALSE)
    \/ clearCart_start(FALSE)
    \/ CartSteps

\* Node runs every continuation that is ready, the server answers every
\* statement or gives up the lock wait, and the pool hands a released
\* connection to a queued getConnection: a step that can be taken is taken.
\* New requests need not arrive.
PoolSpec == Init /\ [][PoolNext]_vars /\ WF_vars(CartSteps)

\* ------------------------------------------------------------------ auth
MaxAuthCalls == 3        \* register / login / refresh / logout requests

\* jwt.sign({ id: user.id }, JWT_SECRET + user.password, { expiresIn }):
\* the token is a function of the user, the password and the second it is
\* signed in (iat), so a token signed for the user in the current second
\* comes out again; in a later second the token is one not signed before.
GenerateRefreshToken(d, u) ==
    IF d.refresh_tokens.last_token[u] # 0
    THEN d.refresh_tokens.last_token[u]
    ELSE d.refresh_tokens.next_token

\* SELECT * FROM refresh_tokens WHERE token = ? AND expires_at > NOW()
ValidTokens(v, token) ==
    SelectSeq(v.refresh_tokens.rows, LAMBDA r : r.token = token /\ ~r.expired)

\* req.body.refreshToken: none (0), a token that has been signed, and a
\* string that is no token (9).  A token cannot be presented before it is
\* signed.
TokenInputs == {0, 9} \cup (1 .. db.refresh_tokens.next_token - 1)

\* An auth handler starts; it borrows no connection.  audit tells whether a
\* logout had deleted the token presented before the call began.
StartAuth(s, r) ==
    /\ calls < MaxAuthCalls
    /\ req[s].pc = "done"
    /\ \A t \in Slots : t < s => req[t].pc # "done"
    /\ req' = [req EXCEPT ![s] =
                 [r EXCEPT !.audit = r.token \in db.refresh_tokens.revoked]]
    /\ calls' = calls + 1
    /\ UNCHANGED <<db, conn, prev, sql_strict, nextOrderId, nextTxnId>>

\* pool.query of a writing statement, then the response.
WriteAndAnswer(s, c, ops, code, r) ==
    /\ ~conn[c].busy
    /\ Write(c, [EmptyW EXCEPT !.token_ops = ops], {}, {})
    /\ Answer(s, code, r)
    /\ UNCHANGED <<nextOrderId, nextTxnId>>

login_start ==
    \E s \in Slots, u \in Users, valid \in BOOLEAN :
        StartAuth(s, [Idle EXCEPT !.op = "login", !.pc = "find", !.user = u,
                                  !.status = IF valid THEN "valid" ELSE "invalid"])

\* findUserByEmail and verifyPassword.
login_find ==
    \E s \in Slots, c \in Conns :
        /\ Running(s, "login", "find")
        /\ PoolSelect(c)
        /\ IF req[s].status = "valid"
           THEN Goto(s, [req[s] EXCEPT !.pc = "insert"])
           ELSE Answer(s, 401, req[s])

\* generateRefreshToken(user), INSERT INTO refresh_tokens and the response
\* with the tokens.
login_insert ==
    \E s \in Slots, c \in Conns :
        LET r == req[s]
            refreshToken == GenerateRefreshToken(db, r.user)
        IN  /\ Running(s, "login", "insert")
            /\ WriteAndAnswer(s, c, <<TokenOp("insert", 0, r.user, refreshToken)>>,
                              200, [r EXCEPT !.issued = refreshToken])

refreshToken_start ==
    \E s \in Slots, token \in TokenInputs :
        StartAuth(s, [Idle EXCEPT !.op = "refreshToken", !.pc = "select",
                                  !.token = token])

\* if (!refreshToken), the SELECT of the token and findUserById.
refreshToken_select ==
    \E s \in Slots, c \in Conns :
        LET r == req[s]
            tokens == ValidTokens(View(conn[c]), r.token)
        IN  /\ Running(s, "refreshToken", "select")
            /\ IF r.token = 0
               THEN /\ Answer(s, 400, r)
                    /\ UNCHANGED <<db, conn, nextOrderId, nextTxnId>>
               ELSE /\ PoolSelect(c)
                    /\ IF tokens = <<>>
                       THEN Answer(s, 403, r)
                       ELSE Goto(s, [r EXCEPT !.pc = "update",
                                              !.key = tokens[1].id,
                                              !.user = tokens[1].user_id])

\* generateToken(user), generateRefreshToken(user), UPDATE refresh_tokens
\* SET token = ? ... WHERE id = ? and the response with the new tokens.
refreshToken_update ==
    \E s \in Slots, c \in Conns :
        LET r == req[s]
            newRefreshToken == GenerateRefreshToken(db, r.user)
        IN  /\ Running(s, "refreshToken", "update")
            /\ WriteAndAnswer(s, c, <<TokenOp("rotate", r.key, r.user, newRefreshToken)>>,
                              200, [r EXCEPT !.issued = newRefreshToken])

logout_start ==
    \E s \in Slots, token \in TokenInputs :
        StartAuth(s, [Idle EXCEPT !.op = "logout", !.pc = "delete",
                                  !.token = token])

\* if (refreshToken) DELETE FROM refresh_tokens WHERE token = ?, then the
\* response.
logout_delete ==
    \E s \in Slots, c \in Conns :
        LET r == req[s]
        IN  /\ Running(s, "logout", "delete")
            /\ IF r.token = 0
               THEN /\ Answer(s, 200, r)
                    /\ UNCHANGED <<db, conn, nextOrderId, nextTxnId>>
               ELSE WriteAndAnswer(s, c, <<TokenOp("delete", 0, 0, r.token)>>,
                                   200, r)

\* A query throws: the catch block answers 500.
auth_fails ==
    \E s \in Slots :
        /\ req[s].op \in {"login", "refreshToken", "logout"} /\ req[s].pc # "done"
        /\ Answer(s, 500, [req[s] EXCEPT !.fault = TRUE, !.at = req[s].pc])
        /\ UNCHANGED <<db, conn, nextOrderId, nextTxnId>>

\* The clock reaches the next second: a token signed from now on has a new
\* iat.
SecondPasses ==
    /\ \E u \in Users : db.refresh_tokens.last_token[u] # 0
    /\ db' = [db EXCEPT !.refresh_tokens.last_token = [u \in Users |-> 0]]
    /\ UNCHANGED <<nextOrderId, nextTxnId, sql_strict, conn, req, prev, calls>>

\* Seven days pass: expires_at of every row is behind NOW().
WeekPasses ==
    /\ \E i \in DOMAIN db.refresh_tokens.rows : ~db.refresh_tokens.rows[i].expired
    /\ db' = [db EXCEPT !.refresh_tokens.last_token = [u \in Users |-> 0],
                        !.refresh_tokens.rows =
                            [i \in DOMAIN @ |-> [@[i] EXCEPT !.expired = TRUE]]]
    /\ UNCHANGED <<nextOrderId, nextTxnId, sql_strict, conn, req, prev, calls>>

AuthNext ==
    \/ login_start
    \/ login_find
    \/ login_insert
    \/ refreshToken_start
    \/ refreshToken_select
    \/ refreshToken_update
    \/ logout_start
    \/ logout_delete
    \/ auth_fails
    \/ SecondPasses
    \/ WeekPasses

AuthSpec == Init /\ [][AuthNext]_vars

\* ================================================================== claims
Done(s, op) == req[s].op = op /\ req[s].pc = "done"

\* No request is in flight.
Quiescent == \A s \in Slots : req[s].pc = "done"

\* The units of product p on the items of order o.
UnitsOf(d, o, p) ==
    LET rows == ItemsOf(d, o)
    IN  SumSeq([i \in DOMAIN rows |->
                  IF rows[i].product_id = p THEN rows[i].quantity ELSE 0])

\* The sum of price x quantity over the items of order o.
ItemsTotal(d, o) ==
    LET rows == ItemsOf(d, o)
    IN  SumSeq([i \in DOMAIN rows |-> rows[i].price * rows[i].quantity])

NamesMissingProduct(items) == \E i \in DOMAIN items : items[i].id \notin ProductIds

\* C1: a createOrder that ends with an error leaves the committed tables
\* (orders, order items, transactions, status history, stock, cart items)
\* exactly as they were when it started.
C1_AllOrNothing ==
    \A s \in Slots :
        Done(s, "createOrder") /\ req[s].resp = 500 => db = req[s].pre

\* A createOrder of user 1 (whose cart holds an item) with two lines failed
\* at its commit, after every insert, decrement and the cart clear.
C1_Witness ==
    \E s \in Slots :
        /\ Done(s, "createOrder") /\ req[s].resp = 500
        /\ req[s].at = "commit" /\ Len(req[s].items) = 2 /\ req[s].user = 1
        /\ req[s].pre.cart_items[1][1] = <<1>>

\* C2: a createOrder with a line naming a product that does not exist is
\* answered 400 (500 only when a storage fault struck first) and leaves the
\* committed tables as they were.
C2_MissingProductRejected ==
    \A s \in Slots :
        Done(s, "createOrder") /\ NamesMissingProduct(req[s].items) =>
            /\ db = req[s].pre
            /\ req[s].resp = 400 \/ (req[s].resp = 500 /\ req[s].fault)

\* The missing product is on the second line, after an existing product.
C2_Witness ==
    \E s \in Slots :
        /\ Done(s, "createOrder") /\ req[s].resp = 400
        /\ Len(req[s].items) = 2
        /\ req[s].items[1].id \in ProductIds
        /\ req[s].items[2].id \notin ProductIds
        /\ db = req[s].pre

\* C3: after a successful createOrder the order's total_amount is the sum of
\* price x quantity over its order items.
C3_TotalIsSumOfItems ==
    \A s \in Slots :
        Done(s, "createOrder") /\ req[s].resp = 201 =>
            db.orders[req[s].orderId].total_amount = ItemsTotal(db, req[s].orderId)

C5_StatusMatchesHistory ==
    Quiescent =>
        \A o \in DOMAIN db.orders :
            /\ HistoryOf(db, o) # <<>>
            /\ db.orders[o].status = Last(HistoryOf(db, o)).status

\* C6: no product's stock is negative.
C6_StockNonNegative == \A p \in ProductIds : db.stock[p] >= 0

\* C7: a successful cancellation adds to each product's stock the units of
\* the order's items, and when it follows the createOrder of that order
\* directly, the stock is what it was before the checkout.
C7_CancelRestoresStock ==
    \A s \in Slots :
        Done(s, "updateOrderStatus") /\ req[s].resp = 200
                                     /\ req[s].status = "cancelled" =>
            /\ \A p \in ProductIds :
                 db.stock[p] = req[s].pre.stock[p] + UnitsOf(db, req[s].orderId, p)
            /\ (prev.op = "createOrder" /\ prev.resp = 201
                    /\ prev.orderId = req[s].orderId)
                 => db.stock = prev.stock

\* A checkout of two units followed directly by its cancellation.
C7_Witness ==
    \E s \in Slots :
        /\ Done(s, "updateOrderStatus") /\ req[s].resp = 200
        /\ req[s].status = "cancelled"
        /\ prev.op = "createOrder" /\ prev.resp = 201
        /\ prev.orderId = req[s].orderId
        /\ \E p \in ProductIds : UnitsOf(db, req[s].orderId, p) = 2
        /\ db.stock = prev.stock

RefundsRefunded(s) ==
    /\ Done(s, "processRefund")
    /\ req[s].txnId \in DOMAIN req[s].pre.transactions
    /\ req[s].pre.transactions[req[s].txnId].status = "refunded"

C9_RefundCompleted ==
    \A s \in Slots :
        /\ Done(s, "processRefund")
        /\ req[s].txnId \in DOMAIN req[s].pre.transactions
        /\ req[s].pre.transactions[req[s].txnId].status = "completed"
        /\ ~req[s].fault
        => LET o == req[s].pre.transactions[req[s].txnId].order_id
           IN  /\ req[s].resp = 200
               /\ db.transactions[req[s].txnId].status = "refunded"
               /\ db.orders[o].status = "refunded"
               /\ Last(HistoryOf(db, o)).status = "refunded"
               /\ \A p \in ProductIds :
                    db.stock[p] = req[s].pre.stock[p] + UnitsOf(db, o, p)

PaysPaid(s) ==
    /\ Done(s, "processPayment")
    /\ req[s].orderId \in DOMAIN req[s].pre.orders
    /\ TxnsOf(req[s].pre, req[s].orderId) # {}

C11_UpdateStatusAtomic ==
    \A s \in Slots :
        /\ Done(s, "updateOrderStatus") /\ req[s].resp = 500
        /\ req[s].at # "select"
        => db = req[s].pre

\* C12: what a getOrderById that ran next to the writing workflows returns
\* is whole: the order's status is the status of the latest history entry
\* it returns.
C12_ReadsSeeWholeWorkflows ==
    \A s \in Slots :
        Done(s, "getOrderById") /\ req[s].resp = 200 =>
            /\ req[s].history # <<>>
            /\ req[s].status = Last(req[s].history).status

\* C13: no stock update is lost: every product's stock is its initial stock
\* plus the changes of the committed operations.
C13_NoLostStockUpdate ==
    \A p \in ProductIds : db.stock[p] = InitDb.stock[p] + db.ledger[p]

\* The connections that are checked out of the pool.
CheckedOut == {c \in Conns : conn[c].busy}

\* C14: every createOrder, updateOrderStatus, processPayment and
\* processRefund in flight holds one connection and gives it back when it
\* ends, however it ends: the checked-out connections are as many as the
\* requests in flight, none once all have finished.
C14_ConnectionsReleased ==
    /\ Cardinality(CheckedOut)
          = Cardinality({s \in Slots : req[s].pc # "done" /\ req[s].op \in ConnHandlers})
    /\ \A s \in Slots : req[s].pc # "done" => conn[req[s].c].busy

\* Two requests have finished, one by an early 400 or 404 response inside
\* the try block and one through the catch block, and no connection is
\* checked out.
C14_Witness ==
    /\ Quiescent /\ CheckedOut = {}
    /\ \E s, t \in Slots :
          /\ req[s].op \in ConnHandlers /\ req[s].resp \in {400, 404}
          /\ req[t].op \in ConnHandlers /\ req[t].resp = 500

\* The units of product p on the lines of a request.
LineUnits(items, p) ==
    SumSeq([i \in DOMAIN items |-> IF items[i].id = p THEN items[i].quantity ELSE 0])

\* C15: a successful createOrder takes from each product's stock the sum of
\* the quantities of the lines that name it, and nothing from the others.
C15_StockDecrementedPerLine ==
    \A s \in Slots :
        Done(s, "createOrder") /\ req[s].resp = 201 =>
            \A p \in ProductIds :
                db.stock[p] = req[s].pre.stock[p] - LineUnits(req[s].items, p)

\* An order with product 1 on two lines (1 and 2 units) and no line for
\* product 2.
C15_Witness ==
    \E s \in Slots :
        /\ Done(s, "createOrder") /\ req[s].resp = 201
        /\ Len(req[s].items) = 2
        /\ req[s].items[1].id = 1 /\ req[s].items[2].id = 1
        /\ db.stock[1] = req[s].pre.stock[1] - 3
        /\ db.stock[2] = req[s].pre.stock[2]

\* C16: right after a successful createOrder the new order is 'pending',
\* its status history is one entry 'pending', and it has one transaction,
\* 'completed', whose amount is the order's total_amount.
C16_NewOrderRecords ==
    \A s \in Slots :
        Done(s, "createOrder") /\ req[s].resp = 201 =>
            LET o == req[s].orderId
            IN  /\ o \in DOMAIN db.orders /\ o \notin DOMAIN req[s].pre.orders
                /\ db.orders[o].status = "pending"
                /\ HistoryOf(db, o) = <<[order_id |-> o, status |-> "pending"]>>
                /\ TxnsOf(db, o) = {req[s].txnId}
                /\ db.transactions[req[s].txnId].status = "completed"
                /\ db.transactions[req[s].txnId].amount = db.orders[o].total_amount

\* A new order of two lines whose total is not zero.
C16_Witness ==
    \E s \in Slots :
        /\ Done(s, "createOrder") /\ req[s].resp = 201
        /\ Len(req[s].items) = 2
        /\ db.orders[req[s].orderId].total_amount > 0
        /\ Cardinality(TxnsOf(db, req[s].orderId)) = 1
        /\ Len(HistoryOf(db, req[s].orderId)) = 1

NoCartItems == [p \in ProductIds |-> <<>>]

\* C17: a successful createOrder leaves the calling user with no cart item,
\* whatever was ordered, keeps the cart rows, and leaves the cart items of
\* every other user as they were.
C17_CartCleared ==
    \A s \in Slots :
        Done(s, "createOrder") /\ req[s].resp = 201 =>
            /\ db.cart_items[req[s].user] = NoCartItems
            /\ db.carts = req[s].pre.carts
            /\ \A u \in Users \ {req[s].user} :
                 db.cart_items[u] = req[s].pre.cart_items[u]

\* User 1, whose cart held product 1, ordered product 2 only, and the cart
\* is empty; before that user 2 ordered and user 1's cart item stayed.
C17_Witness ==
    \E s \in Slots :
        /\ Done(s, "createOrder") /\ req[s].resp = 201 /\ req[s].user = 1
        /\ \A i \in DOMAIN req[s].items : req[s].items[i].id = 2
        /\ req[s].items # <<>>
        /\ req[s].pre.cart_items[1][1] = <<1>>
        /\ db.cart_items[1] = NoCartItems /\ db.carts[1] = 1
        /\ prev.op = "createOrder" /\ prev.resp = 201
        /\ db.orders[prev.orderId].user_id = 2

\* processPayment was called for an order id that has no row.
PaysMissing(r) == r.op = "processPayment" /\ r.orderId \notin DOMAIN r.pre.orders

\* processPayment was called for an order of another user.
PaysForeign(r) ==
    /\ r.op = "processPayment"
    /\ r.orderId \in DOMAIN r.pre.orders
    /\ r.pre.orders[r.orderId].user_id # r.user

\* C18: processPayment for an order id that does not exist or that belongs
\* to another user is answered 404 (500 only when a storage fault struck)
\* and leaves the committed tables as they were.
C18_PaymentNotFound ==
    \A s \in Slots :
        req[s].pc = "done" /\ (PaysMissing(req[s]) \/ PaysForeign(req[s])) =>
            /\ db = req[s].pre
            /\ req[s].resp = 404 \/ (req[s].resp = 500 /\ req[s].fault)

\* User 2 was answered 404 for order 1, which is user 1's and has no
\* transaction, after a 404 for an order id that has no row.
C18_Witness ==
    \E s \in Slots :
        /\ req[s].pc = "done" /\ PaysForeign(req[s]) /\ req[s].resp = 404
        /\ TxnsOf(db, req[s].orderId) = {}
        /\ prev.op = "processPayment" /\ prev.resp = 404
        /\ prev.orderId \notin DOMAIN db.orders

\* C19: a successful processPayment was for an order of the caller without
\* a transaction; it inserted one transaction, 'completed', whose amount is
\* the stored total_amount of the order, set the order to 'processing' and
\* appended one history entry 'processing'.
C19_PaymentRecords ==
    \A s \in Slots :
        Done(s, "processPayment") /\ req[s].resp = 201 =>
            LET o == req[s].orderId
                t == req[s].txnId
                pre == req[s].pre
            IN  /\ o \in DOMAIN pre.orders
                /\ pre.orders[o].user_id = req[s].user
                /\ TxnsOf(pre, o) = {}
                /\ TxnsOf(db, o) = {t}
                /\ DOMAIN db.transactions = DOMAIN pre.transactions \cup {t}
                /\ db.transactions[t].status = "completed"
                /\ db.transactions[t].amount = pre.orders[o].total_amount
                /\ db.orders[o].status = "processing"
                /\ HistoryOf(db, o)
                     = HistoryOf(pre, o) \o <<[order_id |-> o, status |-> "processing"]>>

\* A payment whose body named another amount than the order's total.
C19_Witness ==
    \E s \in Slots :
        /\ Done(s, "processPayment") /\ req[s].resp = 201
        /\ db.orders[req[s].orderId].status = "processing"
        /\ req[s].body_amount # db.orders[req[s].orderId].total_amount
        /\ db.transactions[req[s].txnId].amount = db.orders[req[s].orderId].total_amount

\* C20: updateOrderStatus for an order id that has no row is answered 404
\* (500 only when a storage fault struck) and leaves the committed tables
\* (order status, status history, stock) as they were.
C20_UpdateStatusNotFound ==
    \A s \in Slots :
        Done(s, "updateOrderStatus") /\ req[s].orderId \notin DOMAIN req[s].pre.orders =>
            /\ db = req[s].pre
            /\ req[s].resp = 404 \/ (req[s].resp = 500 /\ req[s].fault)

\* A cancellation of an order id that has no row was answered 404.
C20_Witness ==
    \E s \in Slots :
        /\ Done(s, "updateOrderStatus") /\ req[s].resp = 404
        /\ req[s].status = "cancelled"
        /\ req[s].orderId \notin DOMAIN db.orders
        /\ db = req[s].pre

\* A createOrder whose INSERT of the order or of the transaction met a
\* value that a committed row already has.
Collided(s) ==
    /\ Done(s, "createOrder") /\ req[s].resp = 500 /\ ~req[s].fault
    /\ req[s].at \in {"order", "txn"}

\* C21: no two committed orders share an order number, no two transactions
\* a transaction identifier, and a checkout that generated a value already
\* taken ended with an error and left none of its rows.
C21_UniqueNumbers ==
    /\ \A o1, o2 \in DOMAIN db.orders :
          db.order_number[o1] = db.order_number[o2] => o1 = o2
    /\ \A t1, t2 \in DOMAIN db.transactions :
          db.transaction_id[t1] = db.transaction_id[t2] => t1 = t2
    /\ \A s \in Slots :
          Collided(s) =>
              /\ req[s].at = "txn" => req[s].orderId \notin DOMAIN db.orders
              /\ req[s].at = "txn" => ItemsOf(db, req[s].orderId) = <<>>

\* Two checkouts: one committed, the other generated the same order number
\* and failed.
C21_Witness ==
    \E s, t \in Slots :
        /\ Collided(s) /\ req[s].at = "order"
        /\ Done(t, "createOrder") /\ req[t].resp = 201
        /\ req[s].key = db.order_number[req[t].orderId]
        /\ Cardinality({o \in DOMAIN db.orders : db.order_number[o] = req[s].key}) = 1

IsPrefix(a, b) == Len(a) <= Len(b) /\ SubSeq(b, 1, Len(a)) = a

\* C22: the status history of every order only grows at its end: in every
\* step the history an order had is a prefix of the history it has after.
C22_HistoryAppendOnly ==
    [][\A o \in DOMAIN db.orders : IsPrefix(HistoryOf(db, o), HistoryOf(db', o))]_vars

\* An order whose history has grown beyond the entry it was created with.
C22_Witness ==
    \E o \in DOMAIN db.orders :
        /\ Len(HistoryOf(db, o)) >= 3
        /\ HistoryOf(db, o)[1].status = "pending"
        /\ \E s \in Slots : Done(s, "updateOrderStatus") /\ req[s].resp = 200
                              /\ req[s].orderId = o

\* C23: the order items of an order stay as they were written at checkout:
\* no step changes or removes an item of a committed order.
C23_OrderItemsImmutable ==
    [][\A o \in DOMAIN db.orders : ItemsOf(db', o) = ItemsOf(db, o)]_vars

\* An updateOrderStatus that met no storage fault, for an order that has a
\* row.
StatusSet(s) ==
    /\ Done(s, "updateOrderStatus") /\ req[s].audit /\ ~req[s].fault
    /\ req[s].orderId \in DOMAIN req[s].pre.orders

\* C24: updateOrderStatus for an existing order and a target status of the
\* vocabulary succeeds whatever the order's status was, sets the order's
\* status to the target and appends a history entry with the target.
C24_NoTransitionGuard ==
    \A s \in Slots :
        StatusSet(s) /\ req[s].status \in OrderStatusEnum =>
            LET o == req[s].orderId
            IN  /\ req[s].resp = 200
                /\ db.orders[o].status = req[s].status
                /\ HistoryOf(db, o) = HistoryOf(req[s].pre, o)
                       \o <<[order_id |-> o, status |-> req[s].status]>>

\* A delivered order was set back to pending.
C24_Witness ==
    \E s \in Slots :
        /\ StatusSet(s) /\ req[s].status = "pending" /\ req[s].resp = 200
        /\ req[s].pre.orders[req[s].orderId].status = "delivered"
        /\ db.orders[req[s].orderId].status = "pending"
        /\ Last(HistoryOf(db, req[s].orderId)).status = "pending"

\* C25: after an updateOrderStatus the order's status and every entry of
\* its status history are values of the vocabulary.
C25_StatusInVocabulary ==
    \A s \in Slots :
        StatusSet(s) =>
            LET o == req[s].orderId
                h == HistoryOf(db, o)
            IN  /\ db.orders[o].status \in OrderStatusEnum
                /\ \A i \in DOMAIN h : h[i].status \in HistoryStatusEnum

\* The stock of product p before any order was placed: the stock the run
\* starts with and the units on the orders it starts with.
InitialStock(p) ==
    InitDb.stock[p]
        + SumSeq([o \in 1 .. 2 |-> UnitsOf(InitDb, o, p)])

\* The units of product p on the orders that are neither cancelled nor
\* refunded ('' is what a non-strict server stores for 'refunded').
UnitsHeld(d, p) ==
    SumSeq([o \in 1 .. nextOrderId - 1 |->
              IF o \in DOMAIN d.orders
                 /\ d.orders[o].status \notin {"cancelled", "refunded", ""}
              THEN UnitsOf(d, o, p) ELSE 0])

\* C26: when no request is in flight, each product's stock is its initial
\* stock minus the units on the orders that are neither cancelled nor
\* refunded, and never more than its initial stock.
C26_InventoryConserved ==
    Quiescent =>
        \A p \in ProductIds :
            /\ db.stock[p] = InitialStock(p) - UnitsHeld(db, p)
            /\ db.stock[p] <= InitialStock(p)

\* C27: of two processRefund calls for the same transaction that ran at the
\* same time at most one succeeded, and the order's items were put back
\* into stock once.
C27_ConcurrentRefundOnce ==
    \A s, t \in Slots :
        /\ s # t
        /\ Done(s, "processRefund") /\ Done(t, "processRefund")
        /\ req[s].txnId = req[t].txnId
        /\ req[s].txnId \in DOMAIN db.transactions
        => /\ ~(req[s].resp = 200 /\ req[t].resp = 200)
           /\ \A p \in ProductIds :
                 db.stock[p] <= InitDb.stock[p]
                                  + UnitsOf(db, db.transactions[req[s].txnId].order_id, p)

\* C28: a connection that is back in the pool has no transaction open.
C28_NoOpenTransactionInPool ==
    \A c \in Conns : ~conn[c].busy => ~conn[c].open

\* The workflows that commit before they answer.
Workflows == {"createOrder", "processPayment", "processRefund"}

\* The rows request s wrote are in the committed tables and its connection
\* holds nothing that is not committed.
WritesCommitted(s) ==
    LET r == req[s]
    IN  /\ ~conn[r.c].open
        /\ r.op = "createOrder" =>
              /\ r.orderId \in DOMAIN db.orders
              /\ r.txnId \in TxnsOf(db, r.orderId)
              /\ Len(ItemsOf(db, r.orderId)) = Len(r.items)
              /\ HistoryOf(db, r.orderId) # <<>>
        /\ r.op = "processPayment" =>
              /\ r.txnId \in TxnsOf(db, r.orderId)
              /\ db.orders[r.orderId].status = "processing"
              /\ Last(HistoryOf(db, r.orderId)).status = "processing"
        /\ r.op = "processRefund" =>
              /\ db.transactions[r.txnId].status = "refunded"
              /\ Len(HistoryOf(db, r.orderId)) = Len(HistoryOf(r.pre, r.orderId)) + 1

\* C29: when createOrder, processPayment or processRefund has answered with
\* success its writes are committed; when it has answered with an error the
\* committed tables are as they were before the call.
C29_SuccessOnlyAfterCommit ==
    \A s \in Slots :
        req[s].op \in Workflows /\ req[s].pc = "done" /\ req[s].audit =>
            IF req[s].resp \in {200, 201}
            THEN WritesCommitted(s)
            ELSE db = req[s].pre

\* A payment was answered with success after a createOrder that failed
\* after its inserts (its order 3 and transaction 2 have no row).
C29_Witness ==
    \E s \in Slots :
        /\ Done(s, "processPayment") /\ req[s].resp = 201 /\ WritesCommitted(s)
        /\ prev.op = "createOrder" /\ prev.resp = 500
        /\ req[s].txnId = 3
        /\ 3 \notin DOMAIN db.orders /\ 2 \notin DOMAIN db.transactions

\* The orders createOrder made (orders 1 and 2 were there at the start).
CreatedOrders == {o \in DOMAIN db.orders : o >= 3}

\* C30: an order created by createOrder has exactly one transaction and is
\* never 'processing', and a processPayment for such an order is never
\* answered with success: it is rejected with 400 (already paid), or with
\* 404 when the caller does not see the order as their own, or fails on a
\* storage fault.
C30_CreatedOrdersStayPaidOnce ==
    /\ \A o \in CreatedOrders :
          /\ Cardinality(TxnsOf(db, o)) = 1
          /\ db.orders[o].status # "processing"
    /\ \A s \in Slots :
          Done(s, "processPayment") /\ req[s].orderId \in CreatedOrders =>
              /\ req[s].resp \in {400, 404} \/ (req[s].resp = 500 /\ req[s].fault)
              /\ req[s].resp = 400 => db.orders[req[s].orderId].user_id = req[s].user
              /\ req[s].txnId = 0

\* The owner of an order that createOrder made tried to pay it and was
\* answered 400.
C30_Witness ==
    \E s, t \in Slots :
        /\ Done(t, "createOrder") /\ req[t].resp = 201
        /\ Done(s, "processPayment") /\ req[s].resp = 400
        /\ req[s].orderId = req[t].orderId /\ req[s].user = req[t].user
        /\ Cardinality(TxnsOf(db, req[s].orderId)) = 1
        /\ db.orders[req[s].orderId].status = "pending"

\* Order o and its history are in d2 as they are in d1.
SameOrder(d1, d2, o) ==
    /\ (o \in DOMAIN d1.orders) = (o \in DOMAIN d2.orders)
    /\ o \in DOMAIN d1.orders => d1.orders[o] = d2.orders[o]
    /\ HistoryOf(d1, o) = HistoryOf(d2, o)

\* C31: an updateOrderStatus with a target other than 'cancelled' leaves
\* every product's stock as it was, and with any target it leaves the
\* transactions, the order items and every other order with its history as
\* they were.
C31_UpdateStatusFrame ==
    \A s \in Slots :
        Done(s, "updateOrderStatus") /\ req[s].audit =>
            /\ req[s].status # "cancelled" => db.stock = req[s].pre.stock
            /\ db.transactions = req[s].pre.transactions
            /\ db.order_items = req[s].pre.order_items
            /\ \A o \in 1 .. nextOrderId :
                  o # req[s].orderId => SameOrder(req[s].pre, db, o)

\* Order 1, which has an item, was set to 'delivered': the stock, the
\* transactions, the items and order 2 are as before.
C31_Witness ==
    \E s \in Slots :
        /\ Done(s, "updateOrderStatus") /\ req[s].audit /\ req[s].resp = 200
        /\ req[s].status = "delivered" /\ req[s].orderId = 1
        /\ db.orders[1].status = "delivered"
        /\ ItemsOf(db, 1) # <<>>
        /\ db.stock = req[s].pre.stock
        /\ SameOrder(req[s].pre, db, 2)

\* C32: in every step every transaction keeps its amount and its order, and
\* a transaction that is 'refunded' stays 'refunded'.
C32_RefundedIsTerminal ==
    [][\A t \in DOMAIN db.transactions :
          /\ t \in DOMAIN db'.transactions
          /\ db'.transactions[t].amount = db.transactions[t].amount
          /\ db'.transactions[t].order_id = db.transactions[t].order_id
          /\ db.transactions[t].status = "refunded"
                => db'.transactions[t].status = "refunded"]_vars

\* Transaction 1 was refunded and a second refund of it was answered 400;
\* it still has its amount and its order.
C32_Witness ==
    \E s \in Slots :
        /\ Done(s, "processRefund") /\ req[s].resp = 400 /\ req[s].txnId = 1
        /\ db.transactions[1] = [InitDb.transactions[1] EXCEPT !.status = "refunded"]

\* C33: after a successful createOrder no product has more stock than
\* before the call.
C33_CheckoutNeverAddsStock ==
    \A s \in Slots :
        Done(s, "createOrder") /\ req[s].audit /\ req[s].resp = 201 =>
            \A p \in ProductIds : db.stock[p] <= req[s].pre.stock[p]

\* What a getOrderById answered: the code and the data in the body.
Disclosed(r) ==
    [resp |-> r.resp, status |-> r.status, items |-> r.rows,
     history |-> r.history, txns |-> r.txns]

NotFoundAnswer ==
    [resp |-> 404, status |-> "", items |-> <<>>, history |-> <<>>, txns |-> {}]

\* C34: a getOrderById for an order of another user is answered as one for
\* an id that has no row: 404 with none of the order's status, items,
\* history or transactions (500 when a query failed, with no data either).
C34_OnlyOwnerReadsOrder ==
    \A s \in Slots :
        /\ Done(s, "getOrderById")
        /\ \/ req[s].orderId \notin DOMAIN db.orders
           \/ db.orders[req[s].orderId].user_id # req[s].user
        => \/ Disclosed(req[s]) = NotFoundAnswer
           \/ Disclosed(req[s]) = [NotFoundAnswer EXCEPT !.resp = 500] /\ req[s].fault

\* User 1 asked for order 2 of user 2, which has an item, a history entry
\* and a transaction, and was answered 404 with none of them.
C34_Witness ==
    \E s \in Slots :
        /\ Done(s, "getOrderById") /\ req[s].orderId = 2 /\ req[s].user = 1
        /\ db.orders[2].user_id = 2
        /\ ItemsOf(db, 2) # <<>> /\ HistoryOf(db, 2) # <<>> /\ TxnsOf(db, 2) # {}
        /\ Disclosed(req[s]) = NotFoundAnswer

\* The user who owns the order of transaction t.
OwnerOf(t) == db.orders[db.transactions[t].order_id].user_id

\* C35: for a transaction that exists (one the run starts with) a
\* getTransactionById by an administrator or by the owner of its order is
\* answered with the details, and one by any other user with 403.
C35_OwnerOrAdminReadsTransaction ==
    \A s \in Slots :
        /\ Done(s, "getTransactionById") /\ ~req[s].fault
        /\ req[s].txnId \in DOMAIN InitDb.transactions
        => req[s].resp = IF req[s].role_id = 1 \/ req[s].user = OwnerOf(req[s].txnId)
                         THEN 200 ELSE 403

\* C36: every cart item row has a quantity of at least 1, whatever cart
\* requests ran.
C36_CartItemQuantityPositive ==
    \A u \in Users, p \in ProductIds :
        \A i \in DOMAIN db.cart_items[u][p] : db.cart_items[u][p][i] >= 1

\* The handler the request came in on.
Origin(r) == IF r.via = "" THEN r.op ELSE r.via

\* The committed tables hold at most one cart per user and at most one cart
\* item per cart and product.
OneCartOneItem ==
    /\ \A u \in Users : db.carts[u] <= 1
    /\ \A u \in Users, p \in ProductIds : Len(db.cart_items[u][p]) <= 1

\* A cart request's INSERT is rejected as a duplicate in this step.
Rejected(s) ==
    /\ req[s].op \in CartHandlers /\ req[s].pc \in {"newcart", "insert"}
    /\ req'[s].pc = "done" /\ req'[s].key # 0

\* C37: in every committed state each user has at most one cart and each
\* cart at most one item per product, with cart requests of the same user
\* running concurrently (every step leads to such tables); an INSERT that is
\* rejected as a duplicate is answered 500 and changes no committed table.
C37_OneCartOneItemPerProduct ==
    [][/\ OneCartOneItem'
       /\ \A s \in Slots : Rejected(s) => req'[s].resp = 500 /\ db' = db]_vars

\* A getCart and an addToCart of user 2, who had no cart, ran concurrently:
\* one created the cart and answered, the INSERT of the other was rejected
\* as a duplicate; user 2 has one cart.
C37_Witness ==
    \E s, t \in Slots :
        /\ req[s].pc = "done" /\ req[t].pc = "done"
        /\ req[s].user = 2 /\ req[t].user = 2
        /\ {Origin(req[s]), Origin(req[t])} = {"getCart", "addToCart"}
        /\ req[s].resp = 200
        /\ req[t].resp = 500 /\ req[t].at = "newcart" /\ req[t].key = 2
        /\ db.carts[2] = 1

\* Every connection that is checked out belongs to a request that is
\* running on it.
PoolAccounted ==
    Cardinality({c \in Conns : conn[c].busy})
        = Cardinality({s \in Slots : req[s].pc \notin {"done", "wait"}})

\* C38: with as many concurrent cart requests as the pool has connections,
\* every request that has started is eventually answered, and no connection
\* is then checked out except by the requests still running: a request
\* that waits for getCart's connection holds none.
C38_NoPoolDeadlock ==
    \A s \in Slots :
        (req[s].pc # "done") ~> (req[s].pc = "done" /\ PoolAccounted)

\* Two cart requests held both connections when the addToCart of one
\* committed: its getCart was queued, was later given a connection and
\* answered; every request is answered and every connection is back.
C38_Witness ==
    \E s \in Slots :
        /\ Done(s, "getCart") /\ req[s].via = "addToCart" /\ req[s].queued
        /\ req[s].resp = 200
        /\ \A t \in Slots : req[t].pc = "done" /\ req[t].op # "idle"
        /\ \A c \in Conns : ~conn[c].busy

\* C39: a refreshToken call that presents a token a logout had deleted
\* before the call began is answered 403 (500 when its query failed) and
\* issues no token.
C39_LogoutRevokesRefreshToken ==
    \A s \in Slots :
        Done(s, "refreshToken") /\ req[s].audit =>
            /\ req[s].resp = 403 \/ (req[s].resp = 500 /\ req[s].fault)
            /\ req[s].issued = 0

====
